---- MODULE Spec2Model ----
(***************************************************************************)
(* Credential resolution and usage ledger of the metered proxy service.    *)
(*                                                                         *)
(* The model follows the request handlers of app/auth/routes.py and        *)
(* app/api/routes.py and the MongoDB glue of app/db/mongodb.py.            *)
(*                                                                         *)
(* USER_API_KEYS_STORE is a Python dict whose values are references to     *)
(* mutable dicts; the handlers mutate those dicts in place and store the   *)
(* same dict under several keys.  The model therefore keeps a heap: the    *)
(* cache maps a key to an object id, an account object refers to its       *)
(* api_key dict and its model_usage dict by id, and a shallow .copy()      *)
(* shares both.  Documents of the MongoDB collection are plain values.     *)
(*                                                                         *)
(* Credentials (access tokens and API keys) are the naturals 1, 2, ... in  *)
(* order of generation; 0 is a string that was never issued.  Money is a   *)
(* decimal.Decimal, modelled as coefficient and exponent.                  *)
(*                                                                         *)
(* Spec is one lifetime of the process, started with an empty cache on an  *)
(* empty collection.  A handler runs to its end without interruption,      *)
(* except the proxy handler, which awaits the backend between its          *)
(* authentication and its usage record (ProxyBegin, ProxyEnd), and, when   *)
(* the request body arrives after the headers, awaits the body between its *)
(* authentication and the rest (ProxyAuth, then ProxyBody or               *)
(* ProxyBodyStream).  The store becomes unreachable or reachable between   *)
(* requests.                                                               *)
(*                                                                         *)
(* SpecLifecycle is the service over several lifetimes: the process starts *)
(* on a collection that is empty or holds an account written earlier with  *)
(* quota_left null, loads it (lifespan, load_all_users), serves the        *)
(* requests of Spec and in addition streaming calls and GET /admin/stats,  *)
(* and is shut down (save_users) and started again.  The process is       *)
(* started from main.py or from api/vercel_app.py (variable entry).  The   *)
(* latter has its own lifespan and view_stats on api/mongodb_vercel.py,    *)
(* and imports the routers before it patches app.db.mongodb, so that its   *)
(* request handlers keep the functions of app/db/mongodb.py, whose client  *)
(* it never connects (HandlerUp).                                          *)
(*                                                                         *)
(* SpecChecks is the process started on one account document drawn from    *)
(* the values the checks of authenticate_user_via_bearer distinguish       *)
(* (account active or not, quota_left null, 0 or positive, API key absent, *)
(* active or inactive), serving authenticated requests.                    *)
(***************************************************************************)
EXTENDS Integers, Sequences, FiniteSets, TLC

\* ------------------------------------------------------------------ bounds
\* Number of credentials (access tokens and API keys) generated in a run.
MaxCred == 3
\* Number of usage records written into one account object.
MaxReq == 2
\* Number of proxied calls awaiting the backend at the same time.
MaxPending == 2
\* Last value of the wall clock.
MaxClock == 1
\* Number of logins counted on one account object.
MaxLogin == 1
\* Number of requests served (and clock ticks) in a run.
MaxSteps == 5

\* ------------------------------------------------------------------ inputs
Users == {"alice", "bob"}
KeyNames == {"k1", "k2"}
ModelNames == {"gpt-4o-mini", "my-model"}
\* (prompt_tokens, completion_tokens) as reported by the backend.
TokenPairs == {<<100, 50>>, <<400000, 200000>>}
Creds == 0..MaxCred

\* ------------------------------------------------------------------ decimal.Decimal
\* A Decimal is coefficient * 10^exponent (sign carried by the coefficient).
Dec(c, e) == [c |-> c, e |-> e]

RECURSIVE Pow10(_)
Pow10(n) == IF n <= 0 THEN 1 ELSE 10 * Pow10(n - 1)

MinInt(a, b) == IF a <= b THEN a ELSE b

\* Decimal.__add__: the result carries the smaller exponent.
DecAdd(a, b) ==
    LET e == MinInt(a.e, b.e)
    IN  Dec(a.c * Pow10(a.e - e) + b.c * Pow10(b.e - e), e)

\* Decimal.__mul__: coefficients multiply, exponents add.
DecMul(a, b) == Dec(a.c * b.c, a.e + b.e)

\* Decimal.__eq__: numerical equality, whatever the exponents.
DecEq(a, b) ==
    LET e == MinInt(a.e, b.e)
    IN  a.c * Pow10(a.e - e) = b.c * Pow10(b.e - e)

\* Decimal(int)
DecOfInt(n) == Dec(n, 0)

\* ------------------------------------------------------------------ settings.py
\* MODEL_NAME_MAPPING: public name -> backend name.
MODEL_NAME_MAPPING == [m \in {"gpt-4o-mini"} |-> "provider-4/gpt-4o-mini"]

\* MODEL_COSTS (the entries the inputs can reach).
MODEL_COSTS ==
    [m \in {"provider-4/gpt-4o-mini", "gpt-3.5-turbo", "default_model_for_costing"} |->
        CASE m = "provider-4/gpt-4o-mini" ->
                [input_cost_per_token |-> Dec(15, -8), output_cost_per_token |-> Dec(60, -8)]
          [] m = "gpt-3.5-turbo" ->
                [input_cost_per_token |-> Dec(5, -7), output_cost_per_token |-> Dec(15, -7)]
          [] OTHER ->
                [input_cost_per_token |-> Dec(0, 0), output_cost_per_token |-> Dec(0, 0)]]

\* Default quota for new users.
DefaultQuota == 500000

\* ------------------------------------------------------------------ optional values
\* Python None is the empty sequence, a value v is <<v>>.
None == <<>>
Some(v) == <<v>>

\* ------------------------------------------------------------------ local variables
\* Let(e, LAMBDA x : body) is the body with x holding the value of e: a local
\* variable of the code, assigned once and read afterwards.
Let(e, F(_)) == CHOOSE r \in {F(x) : x \in {e}} : TRUE

\* ------------------------------------------------------------------ bson Decimal128
\* Decimal128(str(d)): same coefficient and exponent in the BSON type
\* (34 significant digits, which every value of the model fits).
ToDecimal128(d) == [d128c |-> d.c, d128e |-> d.e]
\* Decimal(str(d128))
OfDecimal128(x) == Dec(x.d128c, x.d128e)

\* decimal_to_decimal128 on a user dict: every Decimal, at any depth.
decimal_to_decimal128(v) ==
    [v EXCEPT !.total_cost = ToDecimal128(@),
              !.model_usage = [m \in DOMAIN @ |-> [@[m] EXCEPT !.cost = ToDecimal128(@)]]]

\* decimal128_to_decimal on a document.
decimal128_to_decimal(d) ==
    [d EXCEPT !.total_cost = OfDecimal128(@),
              !.model_usage = [m \in DOMAIN @ |-> [@[m] EXCEPT !.cost = OfDecimal128(@)]]]

\* ------------------------------------------------------------------ MongoDB collection
\* A document is a user dict with Decimal128 money.  The collection is the
\* sequence of its documents in insertion order (find_one returns the first).

SetMin(S) == CHOOSE x \in S : \A y \in S : x <= y

\* The filter of find_one / update_one on one field.
DocMatches(d, field, key) ==
    CASE field = "username"     -> d.username = key
      [] field = "api_key.key"  -> d.api_key # None /\ d.api_key[1].key = key
      [] field = "access_token" -> d.access_token = key

\* Index of the first matching document, 0 when there is none.
FindDoc(docs, field, key) ==
    LET hits == {i \in 1..Len(docs) : DocMatches(docs[i], field, key)}
    IN  IF hits = {} THEN 0 ELSE SetMin(hits)

\* The indexes without the unique index on username (and on user_id): only
\* api_key.key is kept unique.
UniqueOkKeyOnly(docs, i, nd) ==
    \A j \in 1..Len(docs) :
        j # i =>
            ~(docs[j].api_key # None /\ nd.api_key # None
                /\ docs[j].api_key[1].key = nd.api_key[1].key)

\* The unique indexes of connect_to_mongodb: username, and api_key.key (sparse).
\* (user_id is generated together with the username entry and is unique with it.)
\* TRUE when document nd at position i (0: a new document) violates none.
UniqueOk(docs, i, nd) ==
    \A j \in 1..Len(docs) :
        j # i =>
            /\ docs[j].username # nd.username
            /\ ~(docs[j].api_key # None /\ nd.api_key # None
                   /\ docs[j].api_key[1].key = nd.api_key[1].key)

\* {"$set": user_doc}: every field of user_doc replaces the document's; a field
\* user_doc does not carry (api_key before the first key, login_count before the
\* first login) keeps the document's value.
SetFields(old, u) ==
    [u EXCEPT !.api_key = IF u.api_key = None THEN old.api_key ELSE u.api_key,
              !.login_count = IF u.login_count = 0 THEN old.login_count ELSE u.login_count]

\* update_one(filter, {"$set": user_doc}, upsert=True).  A DuplicateKeyError
\* leaves the collection as it was.
update_one(docs, field, key, u) ==
    LET i == FindDoc(docs, field, key)
    IN  IF i # 0
        THEN LET nd == SetFields(docs[i], u)
             IN  IF UniqueOk(docs, i, nd) THEN [docs EXCEPT ![i] = nd] ELSE docs
        ELSE IF UniqueOk(docs, 0, u) THEN Append(docs, u) ELSE docs

\* TRUE when update_one(filter, {"$set": user_doc}, upsert=True) raises
\* DuplicateKeyError: the document written would violate a unique index.
UpdateOneRaises(docs, field, key, u) ==
    LET i == FindDoc(docs, field, key)
    IN  IF i # 0 THEN ~UniqueOk(docs, i, SetFields(docs[i], u))
        ELSE ~UniqueOk(docs, 0, u)

\* update_user that returns without a trace when the store is unreachable: no
\* error is logged, nothing tells the write was dropped.
update_user_unreported(s, user_key, v) ==
    IF ~s.up THEN s
    ELSE LET user_doc == decimal_to_decimal128(v)
         IN  IF user_doc.api_key # None /\ user_key = user_doc.api_key[1].key
             THEN [s EXCEPT !.store = update_one(@, "api_key.key", user_key, user_doc),
                            !.degraded = @ \/ UpdateOneRaises(s.store, "api_key.key",
                                                              user_key, user_doc)]
             ELSE [s EXCEPT !.store = update_one(@, "access_token", user_key,
                                          [user_doc EXCEPT !.access_token = user_key]),
                            !.degraded = @ \/ UpdateOneRaises(s.store, "access_token", user_key,
                                                   [user_doc EXCEPT !.access_token = user_key])]

\* update_user(user_key, user_data) on the program state s; v is the dict's value.
\* An unreachable store (client/db None, or an exception) changes nothing in the
\* collection: the call logs an error ("MongoDB connection not established",
\* "Error updating user in MongoDB") and returns False, which s.degraded records.
\* So does a DuplicateKeyError raised by update_one with the store answering:
\* it is caught by the same handler, logged, and the call returns False.
update_user(s, user_key, v) ==
    IF ~s.up THEN [s EXCEPT !.degraded = TRUE]
    ELSE LET user_doc == decimal_to_decimal128(v)
         IN  IF user_doc.api_key # None /\ user_key = user_doc.api_key[1].key
             THEN [s EXCEPT !.store = update_one(@, "api_key.key", user_key, user_doc),
                            !.degraded = @ \/ UpdateOneRaises(s.store, "api_key.key",
                                                              user_key, user_doc)]
             ELSE [s EXCEPT !.store = update_one(@, "access_token", user_key,
                                          [user_doc EXCEPT !.access_token = user_key]),
                            !.degraded = @ \/ UpdateOneRaises(s.store, "access_token", user_key,
                                                   [user_doc EXCEPT !.access_token = user_key])]

\* find_one on one field: None, or Some(the user dict).
find_user(s, field, key) ==
    IF ~s.up THEN None
    ELSE LET i == FindDoc(s.store, field, key)
         IN  IF i = 0 THEN None ELSE Some(decimal128_to_decimal(s.store[i]))

get_user_by_username(s, username) == find_user(s, "username", username)

get_user_by_api_key(s, api_key) == find_user(s, "api_key.key", api_key)

get_user_by_access_token(s, access_token) == find_user(s, "access_token", access_token)

\* ------------------------------------------------------------------ heap of dicts
\* s.acct: account dicts, s.akh: api_key dicts, s.muh: model_usage dicts, each a
\* function from the ids in use.  An account dict holds the id of its api_key
\* dict (0: no "api_key" entry) and of its model_usage dict.

FreshId(D) == SetMin({i \in 1..(Cardinality(D) + 1) : i \notin D})

\* The value of the account dict o.
Deref(s, o) ==
    LET a == s.acct[o]
    IN  [username |-> a.username, access_token |-> a.access_token, active |-> a.active,
         quota_left |-> a.quota_left, request_count |-> a.request_count,
         total_input_tokens |-> a.total_input_tokens,
         total_output_tokens |-> a.total_output_tokens,
         total_cost |-> a.total_cost, last_login |-> a.last_login,
         login_count |-> a.login_count,
         api_key |-> IF a.ak = 0 THEN None ELSE Some(s.akh[a.ak]),
         model_usage |-> s.muh[a.mu]]

\* A new dict (with new nested dicts) holding the value v: [s, o].
Alloc(s, v) ==
    LET o  == FreshId(DOMAIN s.acct)
        k  == IF v.api_key = None THEN 0 ELSE FreshId(DOMAIN s.akh)
        m  == FreshId(DOMAIN s.muh)
        a  == [username |-> v.username, access_token |-> v.access_token, active |-> v.active,
               quota_left |-> v.quota_left, request_count |-> v.request_count,
               total_input_tokens |-> v.total_input_tokens,
               total_output_tokens |-> v.total_output_tokens,
               total_cost |-> v.total_cost, last_login |-> v.last_login,
               login_count |-> v.login_count, ak |-> k, mu |-> m]
    IN  [s |-> [s EXCEPT !.acct = (o :> a) @@ @,
                         !.akh = IF k = 0 THEN @ ELSE (k :> v.api_key[1]) @@ @,
                         !.muh = (m :> v.model_usage) @@ @],
         o |-> o]

\* USER_API_KEYS_STORE: the dict's items in insertion order, [k: key, o: dict id].
CacheIdx(cache, k) ==
    LET hits == {i \in 1..Len(cache) : cache[i].k = k}
    IN  IF hits = {} THEN 0 ELSE SetMin(hits)

\* USER_API_KEYS_STORE.get(k): the dict id, 0 for None.
CacheGet(cache, k) == IF CacheIdx(cache, k) = 0 THEN 0 ELSE cache[CacheIdx(cache, k)].o

\* USER_API_KEYS_STORE[k] = o: an existing key keeps its position.
CachePut(cache, k, o) ==
    IF CacheIdx(cache, k) = 0 THEN Append(cache, [k |-> k, o |-> o])
    ELSE [cache EXCEPT ![CacheIdx(cache, k)].o = o]

\* del USER_API_KEYS_STORE[k]
CacheDel(cache, k) ==
    LET i == CacheIdx(cache, k)
    IN  [j \in 1..(Len(cache) - 1) |-> IF j < i THEN cache[j] ELSE cache[j + 1]]

\* ------------------------------------------------------------------ authenticate_user_via_bearer
\* "api_key" in data and data["api_key"].get("key") == user_key
HoldsKey(s, o, user_key) == s.acct[o].ak # 0 /\ s.akh[s.acct[o].ak].key = user_key

\* The fallback scan over USER_API_KEYS_STORE.items(): the first dict whose
\* embedded api_key.key is user_key; 0 when there is none.
ScanApiKey(s, user_key) ==
    LET hits == {i \in 1..Len(s.cache) : HoldsKey(s, s.cache[i].o, user_key)}
    IN  IF hits = {} THEN 0 ELSE s.cache[SetMin(hits)].o

\* The lookup of lines 41-65: store by API key, store by access token (the
\* document found becomes a new dict, entered in the cache under user_key),
\* then the cache by key, then the scan.  [s, o]; o = 0: not found.
Lookup(s, user_key) ==
    LET byKey == get_user_by_api_key(s, user_key)
    IN  Let(IF byKey # None THEN byKey ELSE get_user_by_access_token(s, user_key),
            LAMBDA found :
        IF found # None
        THEN Let(Alloc(s, found[1]), LAMBDA a :
                 [s |-> [a.s EXCEPT !.cache = CachePut(@, user_key, a.o)], o |-> a.o])
        ELSE IF CacheGet(s.cache, user_key) # 0
             THEN [s |-> s, o |-> CacheGet(s.cache, user_key)]
             ELSE [s |-> s, o |-> ScanApiKey(s, user_key)])

\* user_data["api_key"]["last_used"] = now
TouchKey(s, o, now) == [s EXCEPT !.akh[s.acct[o].ak].last_used = Some(now)]

\* The write-through at the end of a successful authentication.
WriteThrough(s, user_key, o) ==
    update_user([s EXCEPT !.cache = CachePut(@, user_key, o)], user_key, Deref(s, o))

\* The checks of lines 82-95 with the quota check moved before the check of the
\* account's active flag.
AccountChecksQuotaFirst(s, user_key, o) ==
    IF s.acct[o].quota_left # None /\ s.acct[o].quota_left[1] <= 0
    THEN [s |-> s, status |-> "QuotaExceeded", o |-> o]
    ELSE IF ~s.acct[o].active
    THEN [s |-> s, status |-> "InactiveAccount", o |-> o]
    ELSE [s |-> WriteThrough(s, user_key, o), status |-> "ok", o |-> o]

\* The checks on the matched dict o after the key checks (lines 82-95): the
\* account is active, quota is left; then the write-through.
AccountChecks(s, user_key, o) ==
    IF ~s.acct[o].active
    THEN [s |-> s, status |-> "InactiveAccount", o |-> o]
    ELSE IF s.acct[o].quota_left # None /\ s.acct[o].quota_left[1] <= 0
    THEN [s |-> s, status |-> "QuotaExceeded", o |-> o]
    ELSE [s |-> WriteThrough(s, user_key, o), status |-> "ok", o |-> o]

\* authenticate_user_via_bearer(token): [s: the state it leaves, status, o: user_data].
\* status: "ok", "AuthenticationFailure" (401), "InactiveKey" (403),
\* "InactiveAccount" (403), "QuotaExceeded" (429).
authenticate_user_via_bearer(s, user_key, now) ==
    Let(Lookup(s, user_key), LAMBDA l :
        IF l.o = 0 THEN [s |-> l.s, status |-> "AuthenticationFailure", o |-> 0]
        ELSE IF HoldsKey(l.s, l.o, user_key) /\ ~l.s.akh[l.s.acct[l.o].ak].active
        THEN [s |-> l.s, status |-> "InactiveKey", o |-> l.o]
        ELSE Let(IF HoldsKey(l.s, l.o, user_key) THEN TouchKey(l.s, l.o, now) ELSE l.s,
                 LAMBDA s2 : AccountChecks(s2, user_key, l.o)))

\* ------------------------------------------------------------------ register_user
\* The dict of create_user_entry (helpers.py), which carries an api_key structure
\* holding the given key, in place of the dict register_user builds.
NewUserWithKey(username, access_token) ==
    [username |-> username, access_token |-> access_token, active |-> TRUE,
     quota_left |-> Some(DefaultQuota), request_count |-> 0,
     total_input_tokens |-> 0, total_output_tokens |-> 0,
     total_cost |-> Dec(0, -1), last_login |-> None, login_count |-> 0,
     api_key |-> Some([key |-> access_token, name |-> "Default API Key",
                       created_at |-> 0, last_used |-> None, active |-> TRUE]),
     model_usage |-> <<>>]

\* The dict built by register_user (no "api_key" entry, no "login_count" entry).
NewUser(username, access_token) ==
    [username |-> username, access_token |-> access_token, active |-> TRUE,
     quota_left |-> Some(DefaultQuota), request_count |-> 0,
     total_input_tokens |-> 0, total_output_tokens |-> 0,
     total_cost |-> Dec(0, -1), last_login |-> None, login_count |-> 0,
     api_key |-> None, model_usage |-> <<>>]

\* The username check of register_user without its scan of the cache: the store
\* alone decides.
CachedUsernameUnchecked(s, username) == FALSE

\* Some dict of the cache carries this username.
CachedUsername(s, username) ==
    \E i \in 1..Len(s.cache) : s.acct[s.cache[i].o].username = username

\* register_user: [s, status]; access_token is the token generate_api_key returns.
register_user(s, username, access_token) ==
    IF get_user_by_username(s, username) # None
    THEN [s |-> s, status |-> "UniquenessConflict"]
    ELSE IF CachedUsername(s, username)
    THEN [s |-> s, status |-> "UniquenessConflict"]
    ELSE Let(Alloc(s, NewUser(username, access_token)), LAMBDA a :
         [s |-> update_user([a.s EXCEPT !.cache = CachePut(@, access_token, a.o)],
                            access_token, NewUser(username, access_token)),
          status |-> "ok"])

\* ------------------------------------------------------------------ login_user
\* The fallback scan of login_user: index of the first cache item whose dict
\* carries the username (all of them hold the same password hash); 0 if none.
ScanUsername(s, username) ==
    LET hits == {i \in 1..Len(s.cache) : s.acct[s.cache[i].o].username = username}
    IN  IF hits = {} THEN 0 ELSE SetMin(hits)

\* login_user: [s, status, key: the access_token returned].  pwOk: the password
\* given verifies against the account's hash.
login_user(s, username, pwOk, now) ==
    LET mongo_user == get_user_by_username(s, username)
        fromStore  == mongo_user # None /\ pwOk
        a          == Alloc(s, mongo_user[1])
        i          == ScanUsername(s, username)
        user_key   == IF fromStore THEN mongo_user[1].access_token
                      ELSE IF i # 0 /\ pwOk THEN s.cache[i].k ELSE 0
        o          == IF fromStore THEN a.o
                      ELSE IF i # 0 /\ pwOk THEN s.cache[i].o ELSE 0
    IN  Let(IF fromStore
            THEN [a.s EXCEPT !.cache = CachePut(@, mongo_user[1].access_token, a.o)]
            ELSE s, LAMBDA s1 :
        IF o = 0 THEN [s |-> s1, status |-> "AuthenticationFailure", key |-> 0]
        ELSE IF ~s1.acct[o].active THEN [s |-> s1, status |-> "InactiveAccount", key |-> 0]
        ELSE Let([s1 EXCEPT !.acct[o].last_login = Some(now),
                            !.acct[o].login_count = @ + 1], LAMBDA s2 :
             Let(IF s2.acct[o].ak # 0 THEN TouchKey(s2, o, now) ELSE s2, LAMBDA s3 :
             [s |-> WriteThrough(s3, user_key, o), status |-> "ok", key |-> user_key])))

\* ------------------------------------------------------------------ create_api_key
\* The handler body after a successful authentication as (user_key, o).
\* new_api_key is the key generate_api_key returns.  [s, status, old: the key
\* replaced (0: none)].  "InternalError": the KeyError of line 282.
create_api_key(s, user_key, o, name, new_api_key, now) ==
    LET old_key == IF s.acct[o].ak = 0 THEN 0 ELSE s.akh[s.acct[o].ak].key
        k   == FreshId(DOMAIN s.akh)
        c   == FreshId(DOMAIN s.acct)
    IN  \* user_data["api_key"] = {...}; USER_API_KEYS_STORE[user_key] = user_data
        Let([s EXCEPT !.akh = (k :> [key |-> new_api_key, name |-> name,
                                      created_at |-> now, last_used |-> None,
                                      active |-> TRUE]) @@ @,
                      !.acct[o].ak = k,
                      !.cache = CachePut(@, user_key, o)], LAMBDA s1 :
        \* the shallow copy of the old key's dict, re-keyed; the old item deleted
        Let(IF old_key # 0 /\ CacheGet(s1.cache, old_key) # 0
            THEN [s1 EXCEPT !.acct = (c :> [s1.acct[CacheGet(s1.cache, old_key)]
                                              EXCEPT !.ak = k]) @@ @,
                            !.cache = CacheDel(CachePut(@, new_api_key, c), old_key)]
            ELSE s1, LAMBDA s2 :
        Let(update_user(s2, user_key, Deref(s2, o)), LAMBDA s3 :
        IF old_key = 0 THEN [s |-> s3, status |-> "ok", old |-> 0]
        ELSE IF CacheGet(s3.cache, new_api_key) = 0
        THEN [s |-> s3, status |-> "InternalError", old |-> old_key]
        ELSE Let(update_user(s3, new_api_key,
                             Deref(s3, CacheGet(s3.cache, new_api_key))), LAMBDA s4 :
             Let(get_user_by_api_key(s4, old_key), LAMBDA old_user :
             [s |-> IF old_user # None
                    THEN update_user(s4, old_key,
                             [old_user[1] EXCEPT !.api_key[1].active = FALSE])
                    ELSE s4,
              status |-> "ok", old |-> old_key])))))

\* ------------------------------------------------------------------ deactivate_api_key / activate_api_key
\* The handler body after a successful authentication as (user_key, o); b is
\* FALSE for deactivate, TRUE for activate.  [s, status].
set_api_key_active(s, user_key, o, b) ==
    IF s.acct[o].ak = 0 THEN [s |-> s, status |-> "NotFound"]
    ELSE Let([s EXCEPT !.akh[s.acct[o].ak].active = b,
                       !.cache = CachePut(@, user_key, o)], LAMBDA s1 :
         Let(update_user(s1, user_key, Deref(s1, o)), LAMBDA s2 :
         Let(s2.akh[s2.acct[o].ak].key, LAMBDA api_key :
         Let(get_user_by_api_key(s2, api_key), LAMBDA api_key_user :
         [s |-> IF api_key_user # None
                THEN update_user(s2, api_key,
                         [api_key_user[1] EXCEPT !.api_key[1].active = b])
                ELSE s2,
          status |-> "ok"]))))

\* PUT /auth/keys/deactivate with bearer credential user_key: the dependency
\* authenticate_user_via_bearer, then the handler.  [s, status, o: the dict the
\* handler worked on, 0 if the request was refused].  A refused request leaves
\* what its authentication has written.
deactivate_api_key(s, user_key, now) ==
    Let(authenticate_user_via_bearer(s, user_key, now), LAMBDA a :
        IF a.status # "ok" THEN [s |-> a.s, status |-> a.status, o |-> 0]
        ELSE Let(set_api_key_active(a.s, user_key, a.o, FALSE), LAMBDA r :
                 [s |-> r.s, status |-> r.status, o |-> a.o]))

\* PUT /auth/keys/activate with bearer credential user_key, likewise.
activate_api_key(s, user_key, now) ==
    Let(authenticate_user_via_bearer(s, user_key, now), LAMBDA a :
        IF a.status # "ok" THEN [s |-> a.s, status |-> a.status, o |-> 0]
        ELSE Let(set_api_key_active(a.s, user_key, a.o, TRUE), LAMBDA r :
                 [s |-> r.s, status |-> r.status, o |-> a.o]))

\* ------------------------------------------------------------------ proxy_openai_chat_completions
\* The price looked up under the requested name only, without the name the
\* request is mapped to: MODEL_COSTS.get(original) or MODEL_COSTS[default].
ModelCostsUnmapped(model_name) ==
    IF model_name \in DOMAIN MODEL_COSTS THEN MODEL_COSTS[model_name]
    ELSE MODEL_COSTS["default_model_for_costing"]

\* MODEL_COSTS.get(original) or MODEL_COSTS.get(mapped) or MODEL_COSTS[default]
ModelCosts(model_name) ==
    LET mapped == IF model_name \in DOMAIN MODEL_NAME_MAPPING
                  THEN MODEL_NAME_MAPPING[model_name] ELSE model_name
    IN  IF model_name \in DOMAIN MODEL_COSTS THEN MODEL_COSTS[model_name]
        ELSE IF mapped \in DOMAIN MODEL_COSTS THEN MODEL_COSTS[mapped]
        ELSE MODEL_COSTS["default_model_for_costing"]

\* cost_this_req with a model that has no entry in MODEL_COSTS priced as
\* "gpt-3.5-turbo" instead of the zero-cost default entry.
CostThisReqTurboDefault(model_name, input_tokens, output_tokens) ==
    LET mapped == IF model_name \in DOMAIN MODEL_NAME_MAPPING
                  THEN MODEL_NAME_MAPPING[model_name] ELSE model_name
        costs  == IF model_name \in DOMAIN MODEL_COSTS \/ mapped \in DOMAIN MODEL_COSTS
                  THEN ModelCosts(model_name) ELSE MODEL_COSTS["gpt-3.5-turbo"]
    IN  DecAdd(DecMul(DecOfInt(input_tokens), costs.input_cost_per_token),
               DecMul(DecOfInt(output_tokens), costs.output_cost_per_token))

\* cost_this_req = Decimal(in) * input price + Decimal(out) * output price
CostThisReq(model_name, input_tokens, output_tokens) ==
    DecAdd(DecMul(DecOfInt(input_tokens), ModelCosts(model_name).input_cost_per_token),
           DecMul(DecOfInt(output_tokens), ModelCosts(model_name).output_cost_per_token))

\* The subtraction alone, without the clamp at 0 that follows it.
QuotaAfterUnclamped(q, n) == q - n

\* quota_left -= n, then clamped at 0.
QuotaAfter(q, n) == IF q - n < 0 THEN 0 ELSE q - n

\* The per-model dict with the entry of model_name set to this request's figures
\* alone, whether or not it existed.
ModelUsageAfterReset(mu, model_name, input_tokens, output_tokens, cost) ==
    [m \in (DOMAIN mu) \cup {model_name} |->
        IF m = model_name
        THEN [request_count |-> 1, input_tokens |-> input_tokens,
              output_tokens |-> output_tokens, cost |-> DecAdd(Dec(0, 0), cost)]
        ELSE mu[m]]

\* The per-model dict with the entry of model_name created (zeros) if absent and
\* then incremented.
ModelUsageAfter(mu, model_name, input_tokens, output_tokens, cost) ==
    LET e0 == IF model_name \in DOMAIN mu THEN mu[model_name]
              ELSE [request_count |-> 0, input_tokens |-> 0, output_tokens |-> 0,
                    cost |-> Dec(0, 0)]
        e1 == [request_count |-> e0.request_count + 1,
               input_tokens |-> e0.input_tokens + input_tokens,
               output_tokens |-> e0.output_tokens + output_tokens,
               cost |-> DecAdd(e0.cost, cost)]
    IN  [m \in (DOMAIN mu) \cup {model_name} |-> IF m = model_name THEN e1 ELSE mu[m]]

\* The usage update of lines 85-151 on the dict o the request authenticated as,
\* in place, then the write to the cache and the store.  [s, status].
\* quota_left None: the subtraction raises (TypeError) after the counters and the
\* cost were updated, and nothing is written to the cache item or the store.
record_usage(s, user_key, o, model_name, input_tokens, output_tokens) ==
    Let(CostThisReq(model_name, input_tokens, output_tokens), LAMBDA cost :
    Let([s EXCEPT !.acct[o].request_count = @ + 1,
                  !.acct[o].total_input_tokens = @ + input_tokens,
                  !.acct[o].total_output_tokens = @ + output_tokens,
                  !.acct[o].total_cost = DecAdd(@, cost)], LAMBDA s1 :
        IF s1.acct[o].quota_left = None THEN [s |-> s1, status |-> "InternalError"]
        ELSE Let([s1 EXCEPT
                    !.acct[o].quota_left =
                        Some(QuotaAfter(@[1], input_tokens + output_tokens)),
                    !.muh[s1.acct[o].mu] =
                        ModelUsageAfter(@, model_name, input_tokens,
                                        output_tokens, cost)], LAMBDA s2 :
             [s |-> WriteThrough(s2, user_key, o), status |-> "ok"])))

\* ------------------------------------------------------------------ load_all_users / save_users
\* load_all_users entering each document under its access_token only.
RECURSIVE LoadItemsTokenOnly(_, _, _)
LoadItemsTokenOnly(docs, i, acc) ==
    IF i > Len(docs) THEN acc
    ELSE LoadItemsTokenOnly(docs, i + 1, CachePut(acc, docs[i].access_token, i))

\* load_all_users: the dict it returns, as items [k: key, o: position of the
\* document in the collection] in insertion order.  A document enters under its
\* api_key.key (if it has one) and then under its access_token; both items are
\* the same dict.  An unreachable store gives the empty dict.
RECURSIVE LoadItems(_, _, _)
LoadItems(docs, i, acc) ==
    IF i > Len(docs) THEN acc
    ELSE Let(IF docs[i].api_key # None
             THEN CachePut(acc, docs[i].api_key[1].key, i) ELSE acc, LAMBDA a1 :
         LoadItems(docs, i + 1, CachePut(a1, docs[i].access_token, i)))

load_all_users(s) == IF ~s.up THEN <<>> ELSE LoadItems(s.store, 1, <<>>)

\* The dicts load_all_users builds, one per document: [s, objs], objs[i] the id
\* of the dict of document i.
RECURSIVE LoadDicts(_, _, _)
LoadDicts(s, i, objs) ==
    IF i > Len(s.store) THEN [s |-> s, objs |-> objs]
    ELSE Let(Alloc(s, decimal128_to_decimal(s.store[i])), LAMBDA a :
         LoadDicts(a.s, i + 1, Append(objs, a.o)))

\* cache.update(items): every item in order, its dict being objs[item.o].
RECURSIVE PutItems(_, _, _, _)
PutItems(c, items, objs, i) ==
    IF i > Len(items) THEN c
    ELSE PutItems(CachePut(c, items[i].k, objs[items[i].o]), items, objs, i + 1)

\* USER_API_KEYS_STORE.update(mongo_users)
CacheUpdate(s, mongo_users) ==
    Let(LoadDicts(s, 1, <<>>), LAMBDA l :
        [l.s EXCEPT !.cache = PutItems(@, mongo_users, l.objs, 1)])

\* update_one(filter, {"$set": user_doc}) without upsert, and insert_one:
\* [docs, ok]; ok FALSE: the call raised DuplicateKeyError.
UpdateExisting(docs, field, key, u) ==
    LET i == FindDoc(docs, field, key)
    IN  IF i = 0 THEN [docs |-> docs, ok |-> TRUE]
        ELSE LET nd == SetFields(docs[i], u)
             IN  IF UniqueOk(docs, i, nd) THEN [docs |-> [docs EXCEPT ![i] = nd], ok |-> TRUE]
                 ELSE [docs |-> docs, ok |-> FALSE]

InsertOne(docs, u) ==
    IF UniqueOk(docs, 0, u) THEN [docs |-> Append(docs, u), ok |-> TRUE]
    ELSE [docs |-> docs, ok |-> FALSE]

\* One turn of the loop of save_users, for the cache item (key, dict value v);
\* ex: the collection as it was read before the loop (existing_usernames,
\* existing_api_keys, existing_access_tokens).
SaveOne(docs, ex, key, v) ==
    LET d0 == decimal_to_decimal128(v)
        user_doc == IF d0.api_key = None \/ key # d0.api_key[1].key
                    THEN [d0 EXCEPT !.access_token = key] ELSE d0
    IN  IF FindDoc(ex, "username", user_doc.username) # 0
        THEN UpdateExisting(docs, "username", user_doc.username, user_doc)
        ELSE IF user_doc.api_key # None
                  /\ FindDoc(ex, "api_key.key", user_doc.api_key[1].key) # 0
        THEN UpdateExisting(docs, "api_key.key", user_doc.api_key[1].key, user_doc)
        ELSE IF FindDoc(ex, "access_token", user_doc.access_token) # 0
        THEN UpdateExisting(docs, "access_token", user_doc.access_token, user_doc)
        ELSE InsertOne(docs, user_doc)

\* The loop of save_users over USER_API_KEYS_STORE.items(): [docs, ok].  An
\* exception ends it (the writes made before it stay); ok FALSE: it was ended
\* by one.
RECURSIVE SaveItems(_, _, _, _)
SaveItems(s, docs, ex, i) ==
    IF i > Len(s.cache) THEN [docs |-> docs, ok |-> TRUE]
    ELSE Let(SaveOne(docs, ex, s.cache[i].k, Deref(s, s.cache[i].o)), LAMBDA r :
         IF r.ok THEN SaveItems(s, r.docs, ex, i + 1) ELSE r)

\* save_users(USER_API_KEYS_STORE).  An unreachable store, or an exception in
\* the loop, is logged ("Error saving users to MongoDB") and the call returns
\* False, which s.degraded records.
save_users(s) ==
    IF ~s.up THEN [s EXCEPT !.degraded = TRUE]
    ELSE Let(SaveItems(s, s.store, s.store, 1), LAMBDA r :
         [s EXCEPT !.store = r.docs, !.degraded = @ \/ ~r.ok])

\* ------------------------------------------------------------------ lifespan, view_stats
\* The shutdown half of lifespan; connected: connect_to_mongodb succeeded at
\* startup.  The cache is written back when it is not empty and holds at least
\* as many items as load_all_users returns now.
shutdown(s, connected) ==
    IF connected /\ Len(s.cache) > 0 /\ Len(s.cache) >= Len(load_all_users(s))
    THEN save_users(s) ELSE s

\* The startup half of lifespan on the program state s (the cache of a new
\* process is empty); s.up: connect_to_mongodb succeeded.
startup(s) ==
    Let(load_all_users(s), LAMBDA mongo_users :
        IF s.up /\ Len(mongo_users) > 0
              /\ (Len(s.cache) = 0 \/ Len(mongo_users) > Len(s.cache))
        THEN CacheUpdate(s, mongo_users) ELSE s)

\* view_stats: the refresh of the cache before the statistics are returned.
view_stats(s) ==
    Let(load_all_users(s), LAMBDA mongo_users :
        IF Len(mongo_users) > 0 /\ Len(mongo_users) > Len(s.cache)
        THEN CacheUpdate(s, mongo_users) ELSE s)

\* ------------------------------------------------------------------ api/vercel_app.py, api/mongodb_vercel.py
\* The loop and insert_many of save_users of api.mongodb_vercel: one document
\* per cache item, in order: [docs, ok].  The insert is ordered: the first
\* DuplicateKeyError ends it, the documents inserted before it stay.
RECURSIVE InsertMany(_, _, _)
InsertMany(s, docs, i) ==
    IF i > Len(s.cache) THEN [docs |-> docs, ok |-> TRUE]
    ELSE Let(decimal_to_decimal128(Deref(s, s.cache[i].o)), LAMBDA d0 :
         Let(InsertOne(docs, IF d0.api_key = None \/ s.cache[i].k # d0.api_key[1].key
                             THEN [d0 EXCEPT !.access_token = s.cache[i].k] ELSE d0),
             LAMBDA r :
         IF r.ok THEN InsertMany(s, r.docs, i + 1) ELSE r))

\* save_users of api.mongodb_vercel: delete_many({}) empties the collection,
\* then the cache items are inserted.  An unreachable store, or an exception,
\* is logged and the call returns False, which s.degraded records.
save_users_vercel(s) ==
    IF ~s.up THEN [s EXCEPT !.degraded = TRUE]
    ELSE Let(InsertMany(s, <<>>, 1), LAMBDA r :
         [s EXCEPT !.store = r.docs, !.degraded = @ \/ ~r.ok])

\* The shutdown half of lifespan of api/vercel_app.py: the cache is written
\* back whatever it holds.
shutdown_vercel(s, connected) ==
    IF connected THEN save_users_vercel(s) ELSE s

\* The startup half of lifespan of api/vercel_app.py: the loaded set is taken
\* whenever it is not empty.
startup_vercel(s) ==
    Let(load_all_users(s), LAMBDA mongo_users :
        IF s.up /\ Len(mongo_users) > 0 THEN CacheUpdate(s, mongo_users) ELSE s)

\* view_stats of api/vercel_app.py: the loaded set is taken whenever it is not
\* empty.
view_stats_vercel(s) ==
    Let(load_all_users(s), LAMBDA mongo_users :
        IF Len(mongo_users) > 0 THEN CacheUpdate(s, mongo_users) ELSE s)

\* ------------------------------------------------------------------ state
VARIABLES
    store,      \* the MongoDB users collection
    storeUp,    \* the store answers (FALSE: client/db is None or the calls raise)
    entry,      \* the module the process was started from: "main" (main.py) or
                \* "vercel" (api/vercel_app.py)
    connected,  \* connect_to_mongodb succeeded when this process started
    cache,      \* USER_API_KEYS_STORE
    acct,       \* heap: account dicts
    akh,        \* heap: api_key dicts
    muh,        \* heap: model_usage dicts
    pending,    \* proxied calls between authentication and the backend's answer;
                \* stage "body": the handler awaits request.json(), "backend":
                \* it awaits the backend call
    clock,      \* the wall clock read by get_current_timestamp
    nextCred,   \* the next string generate_api_key returns
    last,       \* the outcome of the last request served
    hist,       \* history: the token and the keys issued to each username (keys:
                \* those returned by a completed POST /auth/keys, in order), and
                \* whether activate or deactivate was ever used on it (flagged),
                \* and the key its last completed PUT /auth/keys/deactivate
                \* switched off, 0 once a later activate has completed or a POST
                \* /auth/keys of the account was served (off)
    steps       \* number of steps taken

vars == <<store, storeUp, entry, connected, cache, acct, akh, muh, pending, clock, nextCred, last, hist, steps>>

\* The store answers the request handlers.  Started from api/vercel_app.py the
\* handlers never reach it: app.auth.routes and app.api.routes have bound
\* get_user_by_*, update_user of app.db.mongodb at their import, before the
\* module's attributes are replaced, and the client of app.db.mongodb is never
\* connected (connect_to_mongodb of api.mongodb_vercel connects its own).
HandlerUp == storeUp /\ entry = "main"

\* The program state the handlers work on; up: the store answers (FALSE: every
\* get_user_* returns None and every update_user returns False).
S(up) == [store |-> store, up |-> up, cache |-> cache,
          acct |-> acct, akh |-> akh, muh |-> muh, degraded |-> FALSE]

\* The dicts still referenced, in order: by the cache items, then by the
\* requests in flight.
Roots(c, p) == [i \in 1..(Len(c) + Len(p)) |->
                   IF i <= Len(c) THEN c[i].o ELSE p[i - Len(c)].o]

\* The distinct non-zero ids of seq in the order of their first occurrence.
RECURSIVE Distinct(_, _, _)
Distinct(seq, i, acc) ==
    IF i > Len(seq) THEN acc
    ELSE IF seq[i] = 0 \/ \E j \in 1..Len(acc) : acc[j] = seq[i]
    THEN Distinct(seq, i + 1, acc)
    ELSE Distinct(seq, i + 1, Append(acc, seq[i]))

\* The number the id x takes: its position in order (0 stays 0).
Rank(order, x) == IF x = 0 THEN 0 ELSE CHOOSE n \in 1..Len(order) : order[n] = x

\* Python dicts have no ids: two heaps that differ only in the numbering of
\* their dicts are the same program state.  Collect drops the unreferenced
\* dicts and numbers the others in the order they are reached from the cache
\* and the requests in flight.
Collect(s, p) ==
    Let(Distinct(Roots(s.cache, p), 1, <<>>), LAMBDA old :
    Let(Distinct([n \in 1..Len(old) |-> s.acct[old[n]].ak], 1, <<>>), LAMBDA oak :
    Let(Distinct([n \in 1..Len(old) |-> s.acct[old[n]].mu], 1, <<>>), LAMBDA omu :
        [s EXCEPT
           !.cache = [i \in 1..Len(s.cache) |->
                         [k |-> s.cache[i].k, o |-> Rank(old, s.cache[i].o)]],
           !.acct = [n \in 1..Len(old) |->
                        [s.acct[old[n]] EXCEPT !.ak = Rank(oak, @), !.mu = Rank(omu, @)]],
           !.akh = [n \in 1..Len(oak) |-> s.akh[oak[n]]],
           !.muh = [n \in 1..Len(omu) |-> s.muh[omu[n]]]])))

\* The requests in flight p with their dicts renumbered as Collect(s, p) does.
Renumbered(s, p) ==
    Let(Distinct(Roots(s.cache, p), 1, <<>>), LAMBDA old :
        [i \in 1..Len(p) |-> [p[i] EXCEPT !.o = Rank(old, @)]])

\* The variables take the program state s and the requests in flight p.
Commit(s, p) ==
    \E g \in {Collect(s, p)} :
        /\ store' = g.store
        /\ cache' = g.cache
        /\ acct' = g.acct
        /\ akh' = g.akh
        /\ muh' = g.muh
        /\ pending' = Renumbered(s, p)

\* The outcome of a request: the operation, its status, the credential it
\* presented (0: none), the username it named or authenticated as, the token or
\* key it returned (0: none), the key it replaced (0: none), the key name given,
\* the clock it read, whether the store answered; for the statistics endpoint the
\* number of items loaded and the number of items the cache held; for a usage
\* record the quota
\* it found (q0), the tokens counted (n), and what the request saw when it was
\* authenticated (base) and what happened while it waited (peers, peerTok,
\* outage), the model and the prompt tokens (tin), and what the request's dict
\* held right before the update (pre) and holds after the call (post), and
\* whether that dict is an item of the cache (held); degraded: a write of the
\* request to the store was dropped with an error logged; rotated: a POST
\* /auth/keys of the same account completed while the request waited.
NoPre == [n |-> 0, tok |-> 0, cost |-> Dec(0, 0), q |-> None, m |-> 0,
          inp |-> 0, out |-> 0, mu |-> <<>>]

Outcome(op, status, up, cred, user, key, old, name) ==
    [op |-> op, status |-> status, cred |-> cred, user |-> user, key |-> key,
     old |-> old, name |-> name, at |-> clock, up |-> up,
     q0 |-> 0, n |-> 0, base |-> [n |-> 0, tok |-> 0], peers |-> 0, peerTok |-> 0,
     outage |-> FALSE, degraded |-> FALSE, model |-> "", tin |-> 0, pre |-> NoPre,
     post |-> NoPre, held |-> FALSE, loaded |-> 0, cached |-> 0, rotated |-> FALSE]

\* The process has started on an empty collection: the cache is empty; the
\* connection to the store was made, and the store answers or has stopped
\* answering since.
Init ==
    /\ store = <<>>
    /\ storeUp \in BOOLEAN
    /\ entry = "main"
    /\ connected = TRUE
    /\ cache = <<>>
    /\ acct = <<>>
    /\ akh = <<>>
    /\ muh = <<>>
    /\ pending = <<>>
    /\ clock = 0
    /\ nextCred = 1
    /\ last = [op |-> "none", status |-> "none", cred |-> 0, user |-> "", key |-> 0,
               old |-> 0, name |-> "", at |-> 0, up |-> TRUE, q0 |-> 0, n |-> 0,
               base |-> [n |-> 0, tok |-> 0], peers |-> 0, peerTok |-> 0,
               outage |-> FALSE, degraded |-> FALSE, model |-> "", tin |-> 0,
               pre |-> NoPre, post |-> NoPre, held |-> FALSE, loaded |-> 0,
               cached |-> 0, rotated |-> FALSE]
    /\ hist = [token |-> [u \in Users |-> 0], keys |-> [u \in Users |-> <<>>],
               flagged |-> [u \in Users |-> FALSE],
               off |-> [u \in Users |-> 0]]
    /\ steps = 0

\* One more step of the run.
Step ==
    /\ steps < MaxSteps
    /\ steps' = steps + 1

\* POST /auth/register
Register(u) ==
    /\ Step
    /\ nextCred <= MaxCred
    /\ \E r \in {register_user(S(HandlerUp), u, nextCred)} :
           /\ Commit(r.s, pending)
           /\ nextCred' = IF r.status = "ok" THEN nextCred + 1 ELSE nextCred
           /\ last' = [Outcome("register", r.status, HandlerUp, 0, u,
                               IF r.status = "ok" THEN nextCred ELSE 0, 0, "")
                         EXCEPT !.degraded = r.s.degraded]
           /\ hist' = IF r.status = "ok" THEN [hist EXCEPT !.token[u] = nextCred]
                      ELSE hist
    /\ UNCHANGED <<storeUp, entry, connected, clock>>

\* The login counters of the records of username u are below the bound.
LoginRoom(u) ==
    /\ \A o \in DOMAIN acct : acct[o].username = u => acct[o].login_count < MaxLogin
    /\ \A i \in 1..Len(store) : store[i].username = u => store[i].login_count < MaxLogin

\* POST /auth/login
Login(u, pwOk) ==
    /\ Step
    /\ LoginRoom(u)
    /\ \E r \in {login_user(S(HandlerUp), u, pwOk, clock)} :
           /\ Commit(r.s, pending)
           /\ last' = [Outcome("login", r.status, HandlerUp, 0, u, r.key, 0, "")
                         EXCEPT !.degraded = r.s.degraded]
    /\ UNCHANGED <<storeUp, entry, connected, clock, nextCred, hist>>

\* A request with bearer credential c to an endpoint that only authenticates
\* (GET /auth/test-key, /auth/profile, /auth/keys); also any request whose
\* authentication fails, since the handler behind it never runs.
Resolve(c) ==
    /\ Step
    /\ \E r \in {authenticate_user_via_bearer(S(HandlerUp), c, clock)} :
           /\ Commit(r.s, pending)
           /\ last' = [Outcome("resolve", r.status, HandlerUp, c,
                               IF r.o = 0 THEN "" ELSE r.s.acct[r.o].username, 0, 0, "")
                         EXCEPT !.degraded = r.s.degraded]
    /\ UNCHANGED <<storeUp, entry, connected, clock, nextCred, hist>>

\* The requests in flight p, those of the account u marked: a POST /auth/keys of
\* the account has completed since they were authenticated.
MarkRotated(s, p, u) ==
    [j \in 1..Len(p) |->
        IF s.acct[p[j].o].username = u THEN [p[j] EXCEPT !.rotated = TRUE] ELSE p[j]]

\* POST /auth/keys with bearer credential c, authenticated.
Rotate(c, name) ==
    /\ Step
    /\ nextCred <= MaxCred
    /\ \E a \in {authenticate_user_via_bearer(S(HandlerUp), c, clock)} :
           /\ a.status = "ok"
           /\ \E r \in {create_api_key(a.s, c, a.o, name, nextCred, clock)},
                 u \in {a.s.acct[a.o].username} :
                  /\ Commit(r.s, IF r.status = "ok" THEN MarkRotated(r.s, pending, u)
                                  ELSE pending)
                  /\ last' = [Outcome("rotate", r.status, HandlerUp, c, u,
                                      IF r.status = "ok" THEN nextCred ELSE 0, r.old, name)
                                EXCEPT !.degraded = r.s.degraded]
                  /\ hist' = IF r.status = "ok"
                             THEN [hist EXCEPT !.keys[u] = Append(@, nextCred),
                                               !.off[u] = 0]
                             ELSE [hist EXCEPT !.off[u] = 0]
    /\ nextCred' = nextCred + 1
    /\ UNCHANGED <<storeUp, entry, connected, clock>>

\* PUT /auth/keys/deactivate (b = FALSE), /auth/keys/activate (b = TRUE),
\* authenticated.
SetKeyActive(c, b) ==
    /\ Step
    /\ \E a \in {authenticate_user_via_bearer(S(HandlerUp), c, clock)} :
           /\ a.status = "ok"
           /\ \E r \in {set_api_key_active(a.s, c, a.o, b)},
                 u \in {a.s.acct[a.o].username} :
                  /\ Commit(r.s, pending)
                  /\ last' = [Outcome(IF b THEN "activate" ELSE "deactivate", r.status,
                                      HandlerUp, c, u,
                                      IF a.s.acct[a.o].ak = 0 THEN 0
                                      ELSE a.s.akh[a.s.acct[a.o].ak].key, 0, "")
                                EXCEPT !.degraded = r.s.degraded]
                  /\ hist' = IF r.status = "ok"
                             THEN [hist EXCEPT !.flagged[u] = TRUE,
                                               !.off[u] = IF b THEN 0
                                                          ELSE a.s.akh[a.s.acct[a.o].ak].key]
                             ELSE hist
    /\ UNCHANGED <<storeUp, entry, connected, clock, nextCred>>

\* POST /v1/api/chat/completions whose body has arrived with the headers
\* (request.json() returns without suspending), authenticated, up to the await
\* of the backend call: the request keeps its user_key and its user_data dict.
ProxyBegin(c, model_name) ==
    /\ Step
    /\ Len(pending) < MaxPending
    /\ \E a \in {authenticate_user_via_bearer(S(HandlerUp), c, clock)} :
           /\ a.status = "ok"
           /\ Commit(a.s, Append(pending,
                  [k |-> c, o |-> a.o, model |-> model_name,
                   base |-> [n |-> a.s.acct[a.o].request_count,
                             tok |-> a.s.acct[a.o].total_input_tokens
                                       + a.s.acct[a.o].total_output_tokens],
                   peers |-> 0, peerTok |-> 0, outage |-> ~HandlerUp,
                   rotated |-> FALSE, stage |-> "backend"]))
           /\ last' = [Outcome("proxy", "ok", HandlerUp, c, a.s.acct[a.o].username,
                               0, 0, "")
                         EXCEPT !.degraded = a.s.degraded]
    /\ UNCHANGED <<storeUp, entry, connected, clock, nextCred, hist>>

\* POST /v1/api/chat/completions whose body has not arrived yet: authenticated
\* (the dependency of the route has run), the handler suspended at
\* await request.json(); it holds its user_key and its user_data dict and does
\* not know the model yet.
ProxyAuth(c) ==
    /\ Step
    /\ Len(pending) < MaxPending
    /\ \E a \in {authenticate_user_via_bearer(S(HandlerUp), c, clock)} :
           /\ a.status = "ok"
           /\ Commit(a.s, Append(pending,
                  [k |-> c, o |-> a.o, model |-> "",
                   base |-> [n |-> a.s.acct[a.o].request_count,
                             tok |-> a.s.acct[a.o].total_input_tokens
                                       + a.s.acct[a.o].total_output_tokens],
                   peers |-> 0, peerTok |-> 0, outage |-> ~HandlerUp,
                   rotated |-> FALSE, stage |-> "body"]))
           /\ last' = [Outcome("proxy", "reading", HandlerUp, c, a.s.acct[a.o].username,
                               0, 0, "")
                         EXCEPT !.degraded = a.s.degraded]
    /\ UNCHANGED <<storeUp, entry, connected, clock, nextCred, hist>>

\* The body of request i arrives, without "stream": the handler goes on to the
\* await of the backend call, with the dict it was authenticated with.
ProxyBody(i, model_name) ==
    /\ Step
    /\ i \in 1..Len(pending)
    /\ pending[i].stage = "body"
    /\ pending' = [pending EXCEPT ![i].stage = "backend", ![i].model = model_name]
    /\ last' = Outcome("proxy", "ok", HandlerUp, pending[i].k,
                       acct[pending[i].o].username, 0, 0, "")
    /\ UNCHANGED <<store, storeUp, entry, connected, cache, acct, akh, muh, clock, nextCred,
                   hist>>

\* pending without its i-th request.
Without(p, i) == [j \in 1..(Len(p) - 1) |-> IF j < i THEN p[j] ELSE p[j + 1]]

\* The requests in flight after request i recorded n tokens: those of the same
\* credential have seen one more peer finish (outage: its write was dropped).
Peered(p, i, n, up) ==
    [j \in 1..Len(p) |->
        IF j # i /\ p[j].k = p[i].k
        THEN [p[j] EXCEPT !.peers = @ + 1, !.peerTok = @ + n, !.outage = @ \/ ~up]
        ELSE p[j]]

\* What the dict o holds of the fields a usage record of model_name changes.
PreOf(s, o, model_name) ==
    [n |-> s.acct[o].request_count,
     tok |-> s.acct[o].total_input_tokens + s.acct[o].total_output_tokens,
     cost |-> s.acct[o].total_cost,
     q |-> s.acct[o].quota_left,
     m |-> IF model_name \in DOMAIN s.muh[s.acct[o].mu]
           THEN s.muh[s.acct[o].mu][model_name].request_count ELSE 0,
     inp |-> s.acct[o].total_input_tokens,
     out |-> s.acct[o].total_output_tokens,
     mu |-> s.muh[s.acct[o].mu]]

\* The backend answered request i with usage tp = (prompt, completion) tokens.
ProxyEnd(i, tp) ==
    /\ Step
    /\ i \in 1..Len(pending)
    /\ pending[i].stage = "backend"
    /\ acct[pending[i].o].request_count < MaxReq
    /\ \E q \in {pending[i]} :
       \E r \in {record_usage(S(HandlerUp), q.k, q.o, q.model, tp[1], tp[2])} :
           /\ Commit(r.s, Without(Peered(pending, i, tp[1] + tp[2], HandlerUp), i))
           /\ last' = [Outcome("recordUsage", r.status, HandlerUp, q.k, acct[q.o].username,
                               0, 0, "")
                         EXCEPT !.q0 = IF acct[q.o].quota_left = None THEN 0
                                       ELSE acct[q.o].quota_left[1],
                                !.n = tp[1] + tp[2], !.base = q.base,
                                !.peers = q.peers, !.peerTok = q.peerTok,
                                !.outage = q.outage \/ ~HandlerUp,
                                !.degraded = r.s.degraded,
                                !.model = q.model, !.tin = tp[1],
                                !.pre = PreOf(S(HandlerUp), q.o, q.model),
                                !.post = PreOf(r.s, q.o, q.model),
                                !.held = \E j \in 1..Len(r.s.cache) : r.s.cache[j].o = q.o,
                                !.rotated = q.rotated]
    /\ UNCHANGED <<storeUp, entry, connected, clock, nextCred, hist>>

\* The backend call of request i raised (APIError): nothing is recorded.
ProxyFail(i) ==
    /\ Step
    /\ i \in 1..Len(pending)
    /\ pending[i].stage = "backend"
    /\ Commit(S(HandlerUp), Without(pending, i))
    /\ last' = Outcome("proxy", "BackendError", HandlerUp, pending[i].k,
                       acct[pending[i].o].username, 0, 0, "")
    /\ UNCHANGED <<storeUp, entry, connected, clock, nextCred, hist>>

\* The store becomes unreachable, or reachable again (a process whose connection
\* failed at startup has db = None and never reaches the store).
ToggleStore ==
    /\ Step
    /\ connected
    /\ storeUp' = ~storeUp
    /\ UNCHANGED <<store, entry, connected, cache, acct, akh, muh, pending, clock, nextCred, last,
                   hist>>

\* Time passes.
Tick ==
    /\ Step
    /\ clock < MaxClock
    /\ clock' = clock + 1
    /\ UNCHANGED <<store, storeUp, entry, connected, cache, acct, akh, muh, pending, nextCred,
                   last,
                   hist>>

Next ==
    \/ \E u \in Users : Register(u)
    \/ \E u \in Users, pwOk \in BOOLEAN : Login(u, pwOk)
    \/ \E c \in 0..(nextCred - 1) : Resolve(c)
    \/ \E c \in 1..(nextCred - 1), name \in KeyNames : Rotate(c, name)
    \/ \E c \in 1..(nextCred - 1), b \in BOOLEAN : SetKeyActive(c, b)
    \/ \E c \in 1..(nextCred - 1), m \in ModelNames : ProxyBegin(c, m)
    \/ \E c \in 1..(nextCred - 1) : ProxyAuth(c)
    \/ \E i \in 1..MaxPending, m \in ModelNames : ProxyBody(i, m)
    \/ \E i \in 1..MaxPending, tp \in TokenPairs : ProxyEnd(i, tp)
    \/ \E i \in 1..MaxPending : ProxyFail(i)
    \/ ToggleStore
    \/ Tick

Spec == Init /\ [][Next]_vars

\* ------------------------------------------------------------------ restarts, statistics, streaming
\* POST /v1/api/chat/completions with "stream": true, authenticated: the handler
\* returns the StreamingResponse (200) and nothing else; the branch holds no
\* usage code.  (The body generator then calls create(**body, stream=True) with
\* "stream" also in body, which raises TypeError once the response has started.)
ProxyStream(c, model_name) ==
    /\ Step
    /\ \E a \in {authenticate_user_via_bearer(S(HandlerUp), c, clock)} :
           /\ a.status = "ok"
           /\ Commit(a.s, pending)
           /\ last' = [Outcome("stream", "ok", HandlerUp, c, a.s.acct[a.o].username, 0, 0, "")
                         EXCEPT !.degraded = a.s.degraded, !.model = model_name,
                                !.pre = PreOf(a.s, a.o, model_name),
                                !.post = PreOf(a.s, a.o, model_name),
                                !.held = TRUE]
    /\ UNCHANGED <<storeUp, entry, connected, clock, nextCred, hist>>

\* The body of request i arrives, with "stream": true: the handler returns the
\* StreamingResponse; held: the dict it was authenticated with is still an item
\* of the cache.
ProxyBodyStream(i, model_name) ==
    /\ Step
    /\ i \in 1..Len(pending)
    /\ pending[i].stage = "body"
    /\ \E q \in {pending[i]} :
           /\ Commit(S(HandlerUp), Without(pending, i))
           /\ last' = [Outcome("stream", "ok", HandlerUp, q.k, acct[q.o].username, 0, 0, "")
                         EXCEPT !.model = model_name,
                                !.pre = PreOf(S(HandlerUp), q.o, model_name),
                                !.post = PreOf(S(HandlerUp), q.o, model_name),
                                !.held = \E j \in 1..Len(cache) : cache[j].o = q.o]
    /\ UNCHANGED <<storeUp, entry, connected, clock, nextCred, hist>>

\* GET /admin/stats
ViewStats ==
    /\ Step
    /\ \E r \in {view_stats(S(storeUp))} :
           /\ Commit(r, pending)
           /\ last' = [Outcome("viewStats", IF r = S(storeUp) THEN "kept" ELSE "adopted",
                               storeUp, 0, "", 0, 0, "")
                         EXCEPT !.loaded = Len(load_all_users(S(storeUp))),
                                !.cached = Len(cache)]
    /\ UNCHANGED <<storeUp, entry, connected, clock, nextCred, hist>>

\* The state of a process that has just started on the collection docs.
Fresh(docs, up) ==
    [store |-> docs, up |-> up, cache |-> <<>>, acct |-> <<>>, akh |-> <<>>,
     muh |-> <<>>, degraded |-> FALSE]

\* The process is shut down (the requests in flight are cancelled at their
\* await; none has recorded anything) and started again; up: the store answers
\* when the new process connects.
Restart(up) ==
    /\ Step
    /\ \E f \in {shutdown(S(storeUp), connected)} :
       \E r \in {startup(Fresh(f.store, up))} :
           /\ Commit(r, <<>>)
           /\ last' = [Outcome("restart", "ok", storeUp, 0, "", 0, 0, "")
                         EXCEPT !.degraded = f.degraded, !.cached = Len(cache)]
    /\ storeUp' = up
    /\ connected' = up
    /\ UNCHANGED <<entry, clock, nextCred, hist>>

\* GET /admin/stats of api/vercel_app.py
ViewStatsVercel ==
    /\ Step
    /\ \E r \in {view_stats_vercel(S(storeUp))} :
           /\ Commit(r, pending)
           /\ last' = [Outcome("viewStats",
                               IF Len(load_all_users(S(storeUp))) > 0 THEN "adopted"
                               ELSE "kept", storeUp, 0, "", 0, 0, "")
                         EXCEPT !.loaded = Len(load_all_users(S(storeUp))),
                                !.cached = Len(cache)]
    /\ UNCHANGED <<storeUp, entry, connected, clock, nextCred, hist>>

\* The process started from api/vercel_app.py is shut down (the requests in
\* flight are cancelled at their await) and started again; up: the store
\* answers when the new process connects.
RestartVercel(up) ==
    /\ Step
    /\ \E f \in {shutdown_vercel(S(storeUp), connected)} :
       \E r \in {startup_vercel(Fresh(f.store, up))} :
           /\ Commit(r, <<>>)
           /\ last' = [Outcome("restart", "ok", storeUp, 0, "", 0, 0, "")
                         EXCEPT !.degraded = f.degraded, !.cached = Len(cache)]
    /\ storeUp' = up
    /\ connected' = up
    /\ UNCHANGED <<entry, clock, nextCred, hist>>

\* A document written by an earlier deployment or by an administrator: the
\* account of alice with access token 1, no API key, and quota_left null
\* (unlimited).
LegacyDoc == decimal_to_decimal128([NewUser("alice", 1) EXCEPT !.quota_left = None])

\* The collections the process may start on.
LegacyStores == {<<>>, <<LegacyDoc>>}

\* The process has started, from main.py or from api/vercel_app.py, on one of
\* these collections; the connection was made (the accounts are loaded into the
\* cache) or has failed.
InitLifecycle ==
    \E docs \in LegacyStores, up \in BOOLEAN, e \in {"main", "vercel"} :
    \E r \in {Collect(IF e = "main" THEN startup(Fresh(docs, up))
                      ELSE startup_vercel(Fresh(docs, up)), <<>>)} :
        /\ store = r.store
        /\ storeUp = up
        /\ entry = e
        /\ connected = up
        /\ cache = r.cache
        /\ acct = r.acct
        /\ akh = r.akh
        /\ muh = r.muh
        /\ pending = <<>>
        /\ clock = 0
        /\ nextCred = Len(docs) + 1
        /\ last = [Outcome("none", "none", TRUE, 0, "", 0, 0, "") EXCEPT !.at = 0]
        /\ hist = [token |-> [u \in Users |-> IF docs # <<>> /\ u = "alice" THEN 1 ELSE 0],
                   keys |-> [u \in Users |-> <<>>],
                   flagged |-> [u \in Users |-> FALSE],
                   off |-> [u \in Users |-> 0]]
        /\ steps = 0

\* The requests of Spec with the key name, the model and the token counts fixed
\* (logins and clock ticks left out), and in addition streaming calls, the
\* statistics endpoint and restarts, each of the entry point the process was
\* started from.
NextLifecycle ==
    \/ \E u \in Users : Register(u)
    \/ \E c \in 0..(nextCred - 1) : Resolve(c)
    \/ \E c \in 1..(nextCred - 1) : Rotate(c, "k1")
    \/ \E c \in 1..(nextCred - 1), b \in BOOLEAN : SetKeyActive(c, b)
    \/ \E c \in 1..(nextCred - 1) : ProxyBegin(c, "gpt-4o-mini")
    \/ \E c \in 1..(nextCred - 1) : ProxyAuth(c)
    \/ \E i \in 1..MaxPending : ProxyBody(i, "gpt-4o-mini")
    \/ \E i \in 1..MaxPending : ProxyEnd(i, <<100, 50>>)
    \/ \E i \in 1..MaxPending : ProxyFail(i)
    \/ \E c \in 1..(nextCred - 1) : ProxyStream(c, "gpt-4o-mini")
    \/ \E i \in 1..MaxPending : ProxyBodyStream(i, "gpt-4o-mini")
    \/ entry = "main" /\ ViewStats
    \/ entry = "main" /\ \E up \in BOOLEAN : Restart(up)
    \/ entry = "vercel" /\ ViewStatsVercel
    \/ entry = "vercel" /\ \E up \in BOOLEAN : RestartVercel(up)
    \/ ToggleStore

SpecLifecycle == InitLifecycle /\ [][NextLifecycle]_vars

\* ------------------------------------------------------------------ the checks of authenticate_user_via_bearer
\* The documents an administrator may have left for the account of alice (access
\* token 1): active or not, with quota_left null, 0 or the default, without an
\* API key or with the key 2, active or not.
AccountDocs ==
    {decimal_to_decimal128([NewUser("alice", 1) EXCEPT
                               !.active = a, !.quota_left = q, !.api_key = k]) :
        a \in BOOLEAN,
        q \in {None, Some(0), Some(DefaultQuota)},
        k \in {None} \cup {Some([key |-> 2, name |-> "k1", created_at |-> 0,
                                 last_used |-> None, active |-> b]) : b \in BOOLEAN}}

\* The process has started on a collection holding one of these documents and
\* has loaded it into the cache.
InitChecks ==
    \E d \in AccountDocs :
    \E r \in {Collect(startup(Fresh(<<d>>, TRUE)), <<>>)} :
        /\ store = r.store
        /\ storeUp = TRUE
        /\ entry = "main"
        /\ connected = TRUE
        /\ cache = r.cache
        /\ acct = r.acct
        /\ akh = r.akh
        /\ muh = r.muh
        /\ pending = <<>>
        /\ clock = 0
        /\ nextCred = 3
        /\ last = [Outcome("none", "none", TRUE, 0, "", 0, 0, "") EXCEPT !.at = 0]
        /\ hist = [token |-> [u \in Users |-> IF u = "alice" THEN 1 ELSE 0],
                   keys |-> [u \in Users |-> IF u = "alice" /\ d.api_key # None
                                             THEN <<2>> ELSE <<>>],
                   flagged |-> [u \in Users |-> FALSE],
                   off |-> [u \in Users |-> 0]]
        /\ steps = 0

\* Authenticated requests with any credential, while the store answers or not.
NextChecks ==
    \/ \E c \in 0..(nextCred - 1) : Resolve(c)
    \/ ToggleStore

SpecChecks == InitChecks /\ [][NextChecks]_vars

\* ================================================================== properties
\* The user dicts reachable from the cache, and the documents of the store read
\* back as user dicts.
CacheVals == {Deref(S(storeUp), cache[i].o) : i \in 1..Len(cache)}

StoreVals == {decimal128_to_decimal(store[i]) : i \in 1..Len(store)}

AllVals == CacheVals \cup StoreVals

\* What authenticating with credential c returns now, the store answering or not.
Status(c, up) == authenticate_user_via_bearer(S(up), c, clock).status

RECURSIVE SumCost(_, _)
\* The sum of cost over the entries ms of the per-model dict mu.
SumCost(mu, ms) ==
    IF ms = {} THEN Dec(0, 0)
    ELSE LET m == CHOOSE x \in ms : TRUE
         IN  DecAdd(mu[m].cost, SumCost(mu, ms \ {m}))

\* ------------------------------------------------------------------ C1
\* C1: in every reachable state, every account record held in the cache or the
\* store has total_cost equal to the sum of cost over its model_usage entries.
CexC1_TotalCostIsModelSum ==
    \A v \in AllVals : DecEq(v.total_cost, SumCost(v.model_usage, DOMAIN v.model_usage))

\* ------------------------------------------------------------------ C2
\* C2: quota_left of every account record, in the cache and in the store, is
\* never negative, and a usage record whose tokens exceed the quota the account
\* had left leaves quota_left of the record it wrote at exactly 0.
ThmC2_QuotaNeverNegative ==
    /\ \A v \in AllVals : v.quota_left # None => v.quota_left[1] >= 0
    /\ (last.op = "recordUsage" /\ last.status = "ok" /\ last.n > last.q0)
          => /\ CacheGet(cache, last.cred) # 0
             /\ acct[CacheGet(cache, last.cred)].quota_left = Some(0)

\* A usage record larger than the quota left has been written.
WitC2_Clamped ==
    /\ last.op = "recordUsage" /\ last.status = "ok"
    /\ last.q0 > 0 /\ last.n > last.q0

\* ------------------------------------------------------------------ C3
\* The document the store holds for username u, 0 when it holds none.
StoreDocOf(u) == FindDoc(store, "username", u)

\* C3: when two usage records of one account overlap (the second request
\* started before the first one was written) and the store answered throughout,
\* the stored record shows request_count increased by 2 and the token totals
\* increased by the tokens of both.
CexC3_NoLostUpdate ==
    (last.op = "recordUsage" /\ last.status = "ok" /\ last.peers = 1 /\ ~last.outage)
        => /\ StoreDocOf(last.user) # 0
           /\ LET d == store[StoreDocOf(last.user)]
              IN  /\ d.request_count = last.base.n + 2
                  /\ d.total_input_tokens + d.total_output_tokens
                        = last.base.tok + last.n + last.peerTok

\* ------------------------------------------------------------------ C4
\* Some record of the cache or of the store carries c as its access_token or as
\* its api_key.key, active or not.
CarriedBy(c) ==
    \E v \in AllVals :
        \/ v.access_token = c
        \/ v.api_key # None /\ v.api_key[1].key = c

\* C4: a credential that is neither some account's access_token nor some
\* account's active api_key.key is answered AuthenticationFailure (401). Stated
\* for the credentials no record carries at all, neither as access_token nor as
\* api_key.key (active or inactive): these the claim covers whatever is meant
\* for an inactive key.
CexC4_UnknownCredentialIs401 ==
    \A c \in Creds : ~CarriedBy(c) => Status(c, storeUp) = "AuthenticationFailure"

\* ------------------------------------------------------------------ C5
\* The records of the cache whose api_key.key is c.
CacheHolders(c) == {v \in CacheVals : v.api_key # None /\ v.api_key[1].key = c}

\* Every record of the account u that has an API key has the key c: the account
\* has had no other key, or no record of an earlier key is left.
OnlyKey(u, c) ==
    \A v \in AllVals : (v.username = u /\ v.api_key # None) => v.api_key[1].key = c

\* C5: a credential equal to the api_key.key of an account whose key is
\* inactive is answered AuthorizationFailure (inactive key), whatever the
\* account's own active flag and quota are.  Stated for the accounts whose only
\* key was switched off by a completed PUT /auth/keys/deactivate with no
\* activate and no POST /auth/keys since: the key is answered 403 (inactive
\* key) whether or not the store answers.
CexC5_InactiveKeyIs403 ==
    \A u \in Users :
        (hist.off[u] # 0 /\ OnlyKey(u, hist.off[u]))
            => \A up \in BOOLEAN : Status(hist.off[u], up) = "InactiveKey"

\* ------------------------------------------------------------------ C6
\* C6: right after a rotate of an account that already had a key, whichever
\* credential authenticated the call, the old key is answered 401 or 403
\* (inactive key), and the access token is accepted and resolves to a record
\* whose api_key carries the new key's name and created_at.
CexC6_RotateRetiresOldKey ==
    (last.op = "rotate" /\ last.status = "ok" /\ last.old # 0 /\ last.up = storeUp)
        => /\ Status(last.old, storeUp) \in {"AuthenticationFailure", "InactiveKey"}
           /\ LET r == authenticate_user_via_bearer(S(storeUp), hist.token[last.user], clock)
              IN  /\ r.status = "ok"
                  /\ r.s.acct[r.o].ak # 0
                  /\ r.s.akh[r.s.acct[r.o].ak].name = last.name
                  /\ r.s.akh[r.s.acct[r.o].ak].created_at = last.at

\* ------------------------------------------------------------------ C7
\* The keys issued to username u that a request is not refused for: the answer
\* is neither 401 nor 403 (inactive key).
AcceptedKeys(u) ==
    {k \in {hist.keys[u][i] : i \in 1..Len(hist.keys[u])} :
        Status(k, storeUp) \notin {"AuthenticationFailure", "InactiveKey"}}

\* C7: for every sequence of rotate calls (no activate or deactivate among
\* the requests), at every time exactly one of the keys issued to an account is
\* accepted as active once a first key exists, never two. Stated is the second
\* half: never two.
CexC7_NeverTwoActiveKeys ==
    \A u \in Users : ~hist.flagged[u] => Cardinality(AcceptedKeys(u)) <= 1

\* ------------------------------------------------------------------ C8
\* C8: a key replaced by rotate is never deleted: every key issued to an
\* account before its latest one is answered 403 (inactive key), not 401.
CexC8_ReplacedKeyStaysKnown ==
    \A u \in Users : \A i \in 1..Len(hist.keys[u]) :
        i < Len(hist.keys[u]) => Status(hist.keys[u][i], storeUp) = "InactiveKey"

\* ------------------------------------------------------------------ C9
\* C9: after activate or deactivate has completed, every record of the account,
\* in the cache and in the store, has api_key.active equal to the flag set, and
\* after deactivate the account's API key is answered 403 (inactive key) whether
\* or not the store answers.
CexC9_FlagSetEverywhere ==
    (last.op \in {"activate", "deactivate"} /\ last.status = "ok")
        => /\ \A v \in AllVals :
                (v.username = last.user /\ v.api_key # None)
                    => v.api_key[1].active = (last.op = "activate")
           /\ last.op = "deactivate"
                => \A up \in BOOLEAN : Status(last.key, up) = "InactiveKey"

\* ------------------------------------------------------------------ C10
\* C10: once a register of a username has succeeded, a register of the same
\* username is rejected with UniquenessConflict and changes nothing, in the
\* cache or in the store, whether or not the store answers now (and whether or
\* not it did at the first attempt).
ThmC10_SecondRegisterRejected ==
    \A u \in Users : hist.token[u] # 0 =>
        \A up \in BOOLEAN :
            LET r == register_user(S(up), u, nextCred)
            IN  r.status = "UniquenessConflict" /\ r.s = S(up)

\* A second register of a username was rejected while the store did not
\* answer, the first one having been made while it did not answer either.
WitC10_Rejected ==
    /\ last.op = "register" /\ last.status = "UniquenessConflict" /\ ~last.up
    /\ hist.token[last.user] # 0
    /\ StoreDocOf(last.user) = 0

\* ------------------------------------------------------------------ C11
\* C11: in every reachable state of the store, no two documents share a
\* username, an access_token or an api_key.key: no sequence of register,
\* resolve, usage records, rotate, activate/deactivate and the flush at shutdown
\* creates a second document for an existing account.
ThmC11_OneDocumentPerAccount ==
    \A i, j \in 1..Len(store) :
        i # j =>
            /\ store[i].username # store[j].username
            /\ store[i].access_token # store[j].access_token
            /\ ~(store[i].api_key # None /\ store[j].api_key # None
                   /\ store[i].api_key[1].key = store[j].api_key[1].key)

\* The cache was flushed at shutdown with more items than the store has
\* documents (several items of one account were written), and the store holds
\* the documents of two accounts.
WitC11_FlushedAliases ==
    /\ last.op = "restart" /\ last.up /\ ~last.degraded
    /\ Len(store) = 2
    /\ last.cached > Len(store)

\* ------------------------------------------------------------------ C12
\* The record q is the record p with the whole delta of one usage record of
\* model_name with (tin, tout) tokens: counters, token totals, cost, quota and
\* the entry of the model.
WholeDelta(p, q, model_name, tin, tout) ==
    /\ q.n = p.n + 1
    /\ q.tok = p.tok + tin + tout
    /\ DecEq(q.cost, DecAdd(p.cost, CostThisReq(model_name, tin, tout)))
    /\ q.q = IF p.q = None THEN None ELSE Some(QuotaAfter(p.q[1], tin + tout))
    /\ q.m = p.m + 1

\* The record q shows nothing of it.
NoDelta(p, q) ==
    /\ q.n = p.n /\ q.tok = p.tok /\ DecEq(q.cost, p.cost) /\ q.q = p.q /\ q.m = p.m

\* C12: a usage record is all-or-nothing: after the call, whether it returned
\* or ended in an error, the account record it worked on (an item of the cache)
\* shows the whole delta (request_count, token totals, total_cost, quota_left
\* and the model_usage entry) or none of it.
CexC12_UsageAllOrNothing ==
    (last.op = "recordUsage" /\ last.held)
        => \/ WholeDelta(last.pre, last.post, last.model, last.tin, last.n - last.tin)
           \/ NoDelta(last.pre, last.post)

\* ------------------------------------------------------------------ C13
\* The cache holds, under the key c, a record that passes the checks: c is not
\* its inactive API key, the account is active, and quota is left.
CachedEligible(c) ==
    /\ CacheGet(cache, c) # 0
    /\ LET v == Deref(S(storeUp), CacheGet(cache, c))
       IN  /\ v.api_key # None /\ v.api_key[1].key = c => v.api_key[1].active
           /\ v.active
           /\ v.quota_left = None \/ v.quota_left[1] > 0

\* C13: while the store is unreachable, a request with a credential whose
\* record is in the cache is still authenticated, from the cached record, and a
\* usage record still applies its whole delta to the cached record; neither
\* fails, the store is left as it was, and the dropped write is reported (the
\* error logged by update_user, which returns False).
ThmC13_CacheOnlyWhenStoreDown ==
    /\ \A c \in Creds :
          LET r == authenticate_user_via_bearer(S(FALSE), c, clock)
          IN  /\ CacheGet(cache, c) # 0
                   => r.status # "AuthenticationFailure" /\ r.o = CacheGet(cache, c)
              /\ CachedEligible(c)
                   => /\ r.status = "ok"
                      /\ r.s.degraded
                      /\ r.s.store = store
                      /\ CacheGet(r.s.cache, c) = CacheGet(cache, c)
    /\ (last.op = "recordUsage" /\ ~last.up)
          => /\ last.status = "ok"
             /\ last.degraded
             /\ last.held
             /\ WholeDelta(last.pre, last.post, last.model, last.tin, last.n - last.tin)
             /\ CacheGet(cache, last.cred) # 0
             /\ acct[CacheGet(cache, last.cred)].request_count = last.post.n

\* A usage record was applied while the store was unreachable, for an account
\* the store has never seen (registered and served from the cache alone).
WitC13_RecordedInCache ==
    /\ last.op = "recordUsage" /\ last.status = "ok" /\ ~last.up /\ last.degraded
    /\ StoreDocOf(last.user) = 0
    /\ last.post.n = last.pre.n + 1

\* ------------------------------------------------------------------ C14
\* C14: a usage delta applied while the store was unreachable is never dropped:
\* once the store answers again, a later request with the same credential does
\* not discard it by overwriting the cached record with the store's stale
\* record; the cached record still shows the request counted, and so does the
\* store after the request's write.
CexC14_DeltaSurvivesReconnect ==
    (last.op = "recordUsage" /\ last.status = "ok" /\ ~last.up /\ storeUp
        /\ CacheGet(cache, last.cred) # 0
        /\ acct[CacheGet(cache, last.cred)].request_count = last.post.n)
        => LET r == authenticate_user_via_bearer(S(TRUE), last.cred, clock)
           IN  /\ CacheGet(r.s.cache, last.cred) # 0
               /\ r.s.acct[CacheGet(r.s.cache, last.cred)].request_count >= last.post.n
               /\ r.status = "ok" =>
                      \E i \in 1..Len(r.s.store) :
                          /\ r.s.store[i].username = last.user
                          /\ r.s.store[i].request_count >= last.post.n

\* ------------------------------------------------------------------ C15
\* C15: for every account whose stored quota_left is not null, the quota_left
\* in the store never increases, whatever the sequence and interleaving of
\* requests.
CexC15_StoredQuotaNeverIncreases ==
    [][\A i \in 1..Len(store) : \A j \in 1..Len(store') :
          (store[i].username = store'[j].username
              /\ store[i].quota_left # None /\ store'[j].quota_left # None)
              => store'[j].quota_left[1] <= store[i].quota_left[1]]_vars

\* ------------------------------------------------------------------ C16
\* The last request was one usage record of "gpt-4o-mini" with 100 prompt and
\* 50 completion tokens, presented with the account's access token, on an
\* account that had nothing recorded and the default quota, no other request of
\* the credential having finished meanwhile.
FirstUsageOfFreshAccount ==
    /\ last.op = "recordUsage" /\ last.status = "ok"
    /\ last.cred = hist.token[last.user]
    /\ last.model = "gpt-4o-mini" /\ last.tin = 100 /\ last.n = 150
    /\ last.pre.n = 0 /\ last.pre.q = Some(DefaultQuota) /\ last.peers = 0

\* C16: for a freshly registered account, one usage record of "gpt-4o-mini"
\* with 100 prompt and 50 completion tokens (prices 0.00000015 and 0.00000060
\* per token) yields total_cost exactly 0.000045 (4500e-8), quota_left reduced
\* by exactly 150, and model_usage["gpt-4o-mini"].request_count = 1, the entry
\* being keyed by the requested name; in the cached record and, when the store
\* answers, in the stored document.
ThmC16_FirstUsageExact ==
    FirstUsageOfFreshAccount =>
        /\ CacheGet(cache, last.cred) # 0
        /\ \A v \in {Deref(S(storeUp), CacheGet(cache, last.cred))}
                 \cup {decimal128_to_decimal(store[i]) :
                          i \in {j \in 1..Len(store) :
                                   last.up /\ store[j].username = last.user}} :
              /\ DecEq(v.total_cost, Dec(4500, -8))
              /\ v.quota_left = Some(DefaultQuota - 150)
              /\ v.request_count = 1
              /\ DOMAIN v.model_usage = {"gpt-4o-mini"}
              /\ v.model_usage["gpt-4o-mini"].request_count = 1
              /\ DecEq(v.model_usage["gpt-4o-mini"].cost, Dec(4500, -8))
        /\ last.up => StoreDocOf(last.user) # 0

\* Such a usage record was written, to the cache and to the store.
WitC16_FirstUsage ==
    /\ FirstUsageOfFreshAccount
    /\ last.up
    /\ StoreDocOf(last.user) # 0
    /\ store[StoreDocOf(last.user)].request_count = 1

\* ------------------------------------------------------------------ C17
\* C17: right after a successful register, a request with the access token
\* returned is authenticated, whether or not the store answers, and the account
\* it resolves to is active, has the default quota_left (500000), request_count,
\* token totals and total_cost all zero, an empty model_usage and no api_key.
ThmC17_FreshAccount ==
    (last.op = "register" /\ last.status = "ok")
        => \A up \in BOOLEAN :
              LET r == authenticate_user_via_bearer(S(up), last.key, clock)
              IN  /\ r.status = "ok"
                  /\ \A v \in {Deref(r.s, r.o)} :
                        /\ v.username = last.user
                        /\ v.access_token = last.key
                        /\ v.active
                        /\ v.quota_left = Some(DefaultQuota)
                        /\ v.request_count = 0
                        /\ v.total_input_tokens = 0 /\ v.total_output_tokens = 0
                        /\ DecEq(v.total_cost, Dec(0, 0))
                        /\ v.model_usage = <<>>
                        /\ v.api_key = None

\* A register has succeeded while another account already had an API key.
WitC17_Registered ==
    /\ last.op = "register" /\ last.status = "ok"
    /\ \E v \in AllVals : v.username # last.user /\ v.api_key # None

\* ------------------------------------------------------------------ C18
\* The records that carry credential c (as access_token or api_key.key) exist
\* and all have quota_left null.
UnlimitedCred(c) ==
    /\ CarriedBy(c)
    /\ \A v \in AllVals :
          (v.access_token = c \/ (v.api_key # None /\ v.api_key[1].key = c))
              => v.quota_left = None

\* C18: for an account whose quota_left is null (unlimited), a request is never
\* answered QuotaExceeded, and a usage record succeeds, applies the counter and
\* cost increments and leaves quota_left null.
CexC18_UnlimitedQuota ==
    /\ \A c \in Creds : UnlimitedCred(c) =>
           \A up \in BOOLEAN : Status(c, up) # "QuotaExceeded"
    /\ (last.op = "recordUsage" /\ last.pre.q = None)
          => /\ last.status = "ok"
             /\ WholeDelta(last.pre, last.post, last.model, last.tin, last.n - last.tin)
             /\ last.post.q = None

\* ------------------------------------------------------------------ C19
\* C19: every successful proxied completion call, streaming or not, applies one
\* usage delta to the caller's account: the request_count of the account record
\* the call worked on is increased by exactly 1.
CexC19_EverySuccessfulCallCounted ==
    (last.op \in {"recordUsage", "stream"} /\ last.status = "ok")
        => last.post.n = last.pre.n + 1

\* ------------------------------------------------------------------ C20
\* In the program state r the cache holds, under every key of the loaded set
\* items, the record loaded from the store for it.
Adopted(r, items) ==
    \A i \in 1..Len(items) :
        /\ CacheGet(r.cache, items[i].k) # 0
        /\ Deref(r, CacheGet(r.cache, items[i].k))
              = decimal128_to_decimal(store[items[i].o])

\* view_stats of the entry point the process was started from.
ViewStatsOf(s) == IF entry = "main" THEN view_stats(s) ELSE view_stats_vercel(s)

\* C20: the refresh of a non-empty cache from the store (GET /admin/stats)
\* adopts the loaded set exactly when it has at least as many items as the
\* cache (>=); when it has fewer the cache is left unchanged.
CexC20_AdoptWhenAtLeastAsLarge ==
    Len(cache) > 0 =>
        LET mongo_users == load_all_users(S(storeUp))
            r == ViewStatsOf(S(storeUp))
        IN  IF Len(mongo_users) >= Len(cache)
            THEN Adopted(r, mongo_users)
            ELSE r = S(storeUp)

\* ---------------------------------------------------------------------------
\* C21  the flush at shutdown
\* ---------------------------------------------------------------------------

\* Every account that has a record in the cache has a document in docs.
AllAccountsStored(docs) ==
    \A i \in 1..Len(cache) :
        FindDoc(docs, "username", acct[cache[i].o].username) # 0

\* C21: the flush at shutdown (connected, store reachable) writes the cached
\* set to the store when the cache is not empty and has at least as many items
\* as load_all_users returns, so that every cached account then has a
\* document; when the cache is empty or has fewer items the store is left
\* unchanged.
CexC21_FlushWritesCachedSet ==
    LET f == shutdown(S(storeUp), connected)
        n == Len(load_all_users(S(storeUp)))
    IN  IF Len(cache) > 0 /\ Len(cache) >= n
        THEN (connected /\ storeUp) => AllAccountsStored(f.store)
        ELSE f.store = store

\* ---------------------------------------------------------------------------
\* C22  a usage record written after a rotate
\* ---------------------------------------------------------------------------

\* The rotate of account u stands: a key was issued to u, every record of u in
\* the cache and in the store carries the key issued last, and every key issued
\* before it is refused (401, or 403 inactive key).
RotateStands(u) ==
    /\ Len(hist.keys[u]) > 0
    /\ \A v \in AllVals :
          v.username = u
              => v.api_key # None /\ v.api_key[1].key = hist.keys[u][Len(hist.keys[u])]
    /\ \A i \in 1..(Len(hist.keys[u]) - 1) :
          Status(hist.keys[u][i], storeUp) \in {"AuthenticationFailure", "InactiveKey"}

\* C22: a rotate is not undone by a request it overlapped: when a usage record
\* whose request was authenticated before the rotate is written after the rotate
\* has completed, and the rotate stood right before the write, it still stands
\* after it (cache and store carry the new key, the old key is refused).
CexC22_RotateNotUndone ==
    [][\A u \in Users :
          (/\ Len(pending') < Len(pending)
           /\ last'.op = "recordUsage" /\ last'.status = "ok"
           /\ last'.rotated /\ last'.user = u
           /\ RotateStands(u))
              => RotateStands(u)']_vars

\* ---------------------------------------------------------------------------
\* C23  the two aliases of an account
\* ---------------------------------------------------------------------------

\* The records v and w show the same usage: request_count, token totals,
\* total_cost, quota_left and model_usage.
SameLedger(v, w) ==
    /\ v.request_count = w.request_count
    /\ v.total_input_tokens = w.total_input_tokens
    /\ v.total_output_tokens = w.total_output_tokens
    /\ DecEq(v.total_cost, w.total_cost)
    /\ v.quota_left = w.quota_left
    /\ DOMAIN v.model_usage = DOMAIN w.model_usage
    /\ \A m \in DOMAIN v.model_usage :
          /\ v.model_usage[m].request_count = w.model_usage[m].request_count
          /\ v.model_usage[m].input_tokens = w.model_usage[m].input_tokens
          /\ v.model_usage[m].output_tokens = w.model_usage[m].output_tokens
          /\ DecEq(v.model_usage[m].cost, w.model_usage[m].cost)

\* C23: at every time, when the access token of an account and the key issued
\* to it last are both accepted, the records the two resolve to show the same
\* request_count, token totals, total_cost, quota_left and model_usage.
CexC23_AliasesAgree ==
    \A u \in Users :
        (hist.token[u] # 0 /\ Len(hist.keys[u]) > 0) =>
            LET a == authenticate_user_via_bearer(S(storeUp), hist.token[u], clock)
                b == authenticate_user_via_bearer(S(storeUp),
                         hist.keys[u][Len(hist.keys[u])], clock)
            IN  (a.status = "ok" /\ b.status = "ok")
                    => SameLedger(Deref(a.s, a.o), Deref(b.s, b.o))

\* ---------------------------------------------------------------------------
\* C24  the order of the checks after a match
\* ---------------------------------------------------------------------------

\* C24: a request whose credential matches a record is answered by the first
\* check that fails, in the order inactive key (403), inactive account (403),
\* quota exhausted (429), whether or not the store answers: an inactive API key
\* is answered inactive key even if the account is inactive and out of quota,
\* and the access token of an inactive account with quota_left 0 is answered
\* inactive account.
ThmC24_ChecksInOrder ==
    \A c \in Creds, up \in BOOLEAN :
        LET r == authenticate_user_via_bearer(S(up), c, clock)
        IN  r.o # 0 =>
              LET v == Deref(r.s, r.o)
              IN  r.status =
                    IF v.api_key # None /\ v.api_key[1].key = c /\ ~v.api_key[1].active
                    THEN "InactiveKey"
                    ELSE IF ~v.active THEN "InactiveAccount"
                    ELSE IF v.quota_left # None /\ v.quota_left[1] <= 0
                    THEN "QuotaExceeded"
                    ELSE "ok"

\* A request with the inactive key of an inactive account that is out of quota
\* was answered inactive key, and the access token of that account is answered
\* inactive account.
WitC24_KeyBeforeAccountBeforeQuota ==
    /\ last.op = "resolve" /\ last.status = "InactiveKey"
    /\ \E v \in AllVals :
          /\ v.api_key # None /\ v.api_key[1].key = last.cred /\ ~v.api_key[1].active
          /\ ~v.active
          /\ v.quota_left = Some(0)
          /\ Status(v.access_token, storeUp) = "InactiveAccount"

\* ---------------------------------------------------------------------------
\* C25  cache and store after a successful authentication
\* ---------------------------------------------------------------------------

\* The document of the store addressed by the credential c: the one whose
\* api_key.key is c, else the one whose access_token is c; 0 when there is none.
StoreDocFor(c) ==
    IF FindDoc(store, "api_key.key", c) # 0 THEN FindDoc(store, "api_key.key", c)
    ELSE FindDoc(store, "access_token", c)

\* C25: after a request was authenticated with the store answering, the record
\* the cache holds under the credential presented and the document the store
\* holds for that credential are equal, api_key.last_used included.
CexC25_CacheEqualsStoreAfterResolve ==
    (last.op = "resolve" /\ last.status = "ok" /\ last.up)
        => /\ CacheGet(cache, last.cred) # 0
           /\ StoreDocFor(last.cred) # 0
           /\ decimal128_to_decimal(store[StoreDocFor(last.cred)])
                 = Deref(S(storeUp), CacheGet(cache, last.cred))

\* ---------------------------------------------------------------------------
\* C26  an exhausted quota
\* ---------------------------------------------------------------------------

\* C26: once a usage record has brought an account's quota_left to 0, the next
\* request with the account's access token is answered 429 (quota exceeded),
\* and so is one with the key issued to it last (403 if that key was
\* deactivated), whether or not the store answers.
CexC26_ExhaustedStaysExhausted ==
    (last.op = "recordUsage" /\ last.status = "ok" /\ last.post.q = Some(0))
        => \A up \in BOOLEAN :
              /\ Status(hist.token[last.user], up) = "QuotaExceeded"
              /\ Len(hist.keys[last.user]) > 0
                   => Status(hist.keys[last.user][Len(hist.keys[last.user])], up)
                         \in {"QuotaExceeded", "InactiveKey"}

\* ---------------------------------------------------------------------------
\* C27  the exact effect of a usage record
\* ---------------------------------------------------------------------------

\* C27: a usage record of (in, out) tokens for a model on a dict with an integer
\* quota q changes the dict exactly so: request_count + 1, total_input_tokens
\* + in, total_output_tokens + out, total_cost + in * input price + out * output
\* price, quota_left = max(0, q - (in + out)); the model's entry of model_usage
\* is created with zeros if absent and incremented by (1, in, out, cost); the
\* other entries stay.
ThmC27_UsageRecordExact ==
    (last.op = "recordUsage" /\ last.status = "ok") =>
        LET p     == last.pre
            q     == last.post
            tin   == last.tin
            tout  == last.n - last.tin
            price == ModelCosts(last.model)
            cost  == DecAdd(DecMul(DecOfInt(tin), price.input_cost_per_token),
                            DecMul(DecOfInt(tout), price.output_cost_per_token))
            e0    == IF last.model \in DOMAIN p.mu THEN p.mu[last.model]
                     ELSE [request_count |-> 0, input_tokens |-> 0,
                           output_tokens |-> 0, cost |-> Dec(0, 0)]
        IN  /\ p.q # None
            /\ q.n = p.n + 1
            /\ q.inp = p.inp + tin
            /\ q.out = p.out + tout
            /\ DecEq(q.cost, DecAdd(p.cost, cost))
            /\ q.q = Some(IF p.q[1] - (tin + tout) > 0 THEN p.q[1] - (tin + tout) ELSE 0)
            /\ DOMAIN q.mu = DOMAIN p.mu \cup {last.model}
            /\ q.mu[last.model].request_count = e0.request_count + 1
            /\ q.mu[last.model].input_tokens = e0.input_tokens + tin
            /\ q.mu[last.model].output_tokens = e0.output_tokens + tout
            /\ DecEq(q.mu[last.model].cost, DecAdd(e0.cost, cost))
            /\ \A m \in DOMAIN p.mu : m # last.model => q.mu[m] = p.mu[m]

\* A usage record was written on a dict whose model_usage already had an entry
\* for the model: the entry was incremented.
WitC27_SecondUsageOfModel ==
    /\ last.op = "recordUsage" /\ last.status = "ok"
    /\ last.pre.m >= 1
    /\ last.post.mu[last.model].request_count = last.pre.m + 1
    /\ last.post.q # None

\* ---------------------------------------------------------------------------
\* C28  a model without a price
\* ---------------------------------------------------------------------------

\* model_name has no entry in MODEL_COSTS, under its own name or under the name
\* it is mapped to.
Unpriced(model_name) ==
    /\ model_name \notin DOMAIN MODEL_COSTS
    /\ model_name \in DOMAIN MODEL_NAME_MAPPING
          => MODEL_NAME_MAPPING[model_name] \notin DOMAIN MODEL_COSTS

\* C28: a usage record for a model that has no price entry uses the zero-cost
\* default: total_cost stays, the model's entry of model_usage (new: cost 0) has
\* its cost unchanged, and the counters and token totals are incremented and the
\* quota decremented as for any model.
ThmC28_UnpricedModelCostsNothing ==
    (last.op = "recordUsage" /\ last.status = "ok" /\ Unpriced(last.model)) =>
        LET p == last.pre
            q == last.post
        IN  /\ DecEq(q.cost, p.cost)
            /\ last.model \in DOMAIN q.mu
            /\ DecEq(q.mu[last.model].cost,
                     IF last.model \in DOMAIN p.mu THEN p.mu[last.model].cost
                     ELSE Dec(0, 0))
            /\ last.model \notin DOMAIN p.mu
                  => /\ q.mu[last.model].request_count = 1
                     /\ q.mu[last.model].input_tokens = last.tin
                     /\ q.mu[last.model].output_tokens = last.n - last.tin
            /\ q.n = p.n + 1
            /\ q.inp = p.inp + last.tin
            /\ q.out = p.out + (last.n - last.tin)
            /\ p.q # None
            /\ q.q = Some(IF p.q[1] - last.n > 0 THEN p.q[1] - last.n ELSE 0)

\* A first usage record for a model without a price was written: the dict had
\* no entry for it, tokens were counted, and quota was taken.
WitC28_UnpricedFirstUsage ==
    /\ last.op = "recordUsage" /\ last.status = "ok" /\ Unpriced(last.model)
    /\ last.model \notin DOMAIN last.pre.mu
    /\ last.n > 0
    /\ last.post.q[1] < last.pre.q[1]

\* ---------------------------------------------------------------------------
\* C29  api_key.last_used in the store
\* ---------------------------------------------------------------------------

\* The timestamp a is earlier than b: b is set and a is unset (never used) or
\* smaller.
Earlier(a, b) == b # None /\ (a = None \/ a[1] < b[1])

\* C29: for every API key, the last_used the store holds for it never moves
\* backwards: no step takes the document carrying the key to an earlier
\* last_used (or back to null).
CexC29_LastUsedMonotonic ==
    [][\A c \in Creds :
          (FindDoc(store, "api_key.key", c) # 0 /\ FindDoc(store', "api_key.key", c) # 0)
              => ~Earlier(store'[FindDoc(store', "api_key.key", c)].api_key[1].last_used,
                          store[FindDoc(store, "api_key.key", c)].api_key[1].last_used)]_vars

\* ---------------------------------------------------------------------------
\* C30  the access token of an account
\* ---------------------------------------------------------------------------

\* C30: the access_token of an account never changes after registration: at
\* every time every record of the cache and of the store carries, as
\* access_token, the token issued to its username at registration, and so does
\* every document of the store after one more authenticated request with any
\* credential (access token or API key), whether or not the store answers.
CexC30_AccessTokenNeverChanges ==
    /\ \A v \in AllVals : v.access_token = hist.token[v.username]
    /\ \A c \in Creds, up \in BOOLEAN :
          LET r == authenticate_user_via_bearer(S(up), c, clock)
          IN  \A i \in 1..Len(r.s.store) :
                  r.s.store[i].access_token = hist.token[r.s.store[i].username]

\* ---------------------------------------------------------------------------
\* C31  a rotate of an account that has a key
\* ---------------------------------------------------------------------------

\* C31: a POST /auth/keys of an account that already has an API key completes
\* and returns the new key, and afterwards the cache holds a record carrying
\* the new key and, when the store answered, so does the store; also when the
\* cache had no item under the old key.
CexC31_RotateCompletes ==
    (last.op = "rotate" /\ last.old # 0)
        => /\ last.status = "ok"
           /\ last.key # 0
           /\ CacheHolders(last.key) # {}
           /\ last.up => FindDoc(store, "api_key.key", last.key) # 0

\* ---------------------------------------------------------------------------
\* C32  the load at startup
\* ---------------------------------------------------------------------------

\* C32: a process that starts, from main.py or from api/vercel_app.py, with the
\* store answering (empty cache) has, for every document of the collection, a
\* cache item under the document's access_token holding the document's record
\* and, if the document has an API key, an item under api_key.key that is the
\* same dict.
ThmC32_LoadIndexesEveryAlias ==
    \A r \in {startup(Fresh(store, TRUE)), startup_vercel(Fresh(store, TRUE))} :
        \A i \in 1..Len(store) :
            /\ CacheGet(r.cache, store[i].access_token) # 0
            /\ Deref(r, CacheGet(r.cache, store[i].access_token))
                  = decimal128_to_decimal(store[i])
            /\ store[i].api_key # None
                  => CacheGet(r.cache, store[i].api_key[1].key)
                        = CacheGet(r.cache, store[i].access_token)

\* The process was started again on a collection holding an account with an API
\* key, and the cache holds one dict under the account's two aliases.
WitC32_LoadedBothAliases ==
    /\ last.op = "restart" /\ connected /\ storeUp
    /\ \E i \in 1..Len(store) :
          /\ store[i].api_key # None
          /\ CacheGet(cache, store[i].access_token) # 0
          /\ CacheGet(cache, store[i].api_key[1].key)
                = CacheGet(cache, store[i].access_token)

\* ---------------------------------------------------------------------------
\* C33  what a login changes
\* ---------------------------------------------------------------------------

\* The fields of a record a login is to leave alone: the api_key structure,
\* quota_left and the usage counters.
Frame(v) ==
    [api_key |-> v.api_key, quota_left |-> v.quota_left,
     request_count |-> v.request_count,
     total_input_tokens |-> v.total_input_tokens,
     total_output_tokens |-> v.total_output_tokens,
     total_cost |-> v.total_cost, model_usage |-> v.model_usage]

\* Those fields of the record cached under the key k, and of the document of
\* username u.
CacheFrame(k) == Frame(Deref(S(storeUp), CacheGet(cache, k)))
StoreFrame(u) == Frame(decimal128_to_decimal(store[StoreDocOf(u)]))

\* C33: a successful login leaves the api_key structure (last_used included),
\* quota_left and the usage counters of every cached record and of every stored
\* document as they were.
CexC33_LoginChangesLoginFieldsOnly ==
    [][(last'.op = "login" /\ last'.status = "ok")
          => /\ \A k \in Creds :
                   (CacheGet(cache, k) # 0 /\ CacheGet(cache', k) # 0)
                       => CacheFrame(k)' = CacheFrame(k)
             /\ \A u \in Users :
                   (StoreDocOf(u) # 0 /\ FindDoc(store', "username", u) # 0)
                       => StoreFrame(u)' = StoreFrame(u)]_vars

\* ---------------------------------------------------------------------------
\* C34  a failed authentication
\* ---------------------------------------------------------------------------

\* C34: a request that is refused at authentication (401, 403 or 429) changes
\* nothing: the store is not written, and the cache has the same items holding
\* the same records, api_key.last_used included, as before the request.
CexC34_FailedResolveChangesNothing ==
    \A c \in Creds, up \in BOOLEAN :
        LET r == authenticate_user_via_bearer(S(up), c, clock)
        IN  r.status # "ok"
              => /\ r.s.store = store
                 /\ Len(r.s.cache) = Len(cache)
                 /\ \A i \in 1..Len(cache) :
                       /\ r.s.cache[i].k = cache[i].k
                       /\ Deref(r.s, r.s.cache[i].o) = Deref(S(up), cache[i].o)

\* ---------------------------------------------------------------------------
\* C35  what rotate, activate and deactivate change
\* ---------------------------------------------------------------------------

\* Every document of the store has, in the state s2, a document of the same
\* username showing the same usage.
StoreLedgerKept(s2) ==
    \A i \in 1..Len(store) :
        /\ FindDoc(s2.store, "username", store[i].username) # 0
        /\ SameLedger(decimal128_to_decimal(
                         s2.store[FindDoc(s2.store, "username", store[i].username)]),
                      decimal128_to_decimal(store[i]))

\* Every item of the cache that the state s2 still has shows the same usage
\* there.
CacheLedgerKept(s2) ==
    \A i \in 1..Len(cache) :
        CacheGet(s2.cache, cache[i].k) # 0
            => SameLedger(Deref(s2, CacheGet(s2.cache, cache[i].k)),
                          Deref(S(storeUp), cache[i].o))

\* C35: a completed POST /auth/keys, activate or deactivate, with any
\* credential and whether or not the store answers, leaves request_count, the
\* token totals, total_cost, quota_left and model_usage as they were in every
\* cache item and every document of the store.
CexC35_KeyOperationsKeepLedger ==
    \A c \in 1..(nextCred - 1), up \in BOOLEAN :
        LET a == authenticate_user_via_bearer(S(up), c, clock)
        IN  a.status = "ok" =>
              /\ LET r == create_api_key(a.s, c, a.o, "k1", nextCred, clock)
                 IN  r.status = "ok" => StoreLedgerKept(r.s) /\ CacheLedgerKept(r.s)
              /\ \A b \in BOOLEAN :
                    LET r == set_api_key_active(a.s, c, a.o, b)
                    IN  r.status = "ok" => StoreLedgerKept(r.s) /\ CacheLedgerKept(r.s)

\* ---------------------------------------------------------------------------
\* C36  the stored ledger never goes backwards
\* ---------------------------------------------------------------------------

\* Every document of the store has, in the collection docs, a document of the
\* same username whose request_count and token totals are not smaller.
NotBelow(docs) ==
    \A i \in 1..Len(store) :
        /\ FindDoc(docs, "username", store[i].username) # 0
        /\ LET d == docs[FindDoc(docs, "username", store[i].username)]
           IN  /\ d.request_count >= store[i].request_count
               /\ d.total_input_tokens >= store[i].total_input_tokens
               /\ d.total_output_tokens >= store[i].total_output_tokens

\* C36: no operation takes the request_count, total_input_tokens or
\* total_output_tokens of a stored account below what the store held: not an
\* authenticated request, a usage record of a request in flight, a login, a
\* rotate, an activate or deactivate, or the flush at shutdown, applied in any
\* reachable state with the store answering.
CexC36_StoredLedgerNeverDecreases ==
    /\ NotBelow(shutdown(S(TRUE), connected).store)
    /\ \A u \in Users : NotBelow(login_user(S(TRUE), u, TRUE, clock).s.store)
    /\ \A i \in 1..Len(pending), tp \in TokenPairs :
          \A m \in IF pending[i].stage = "backend" THEN {pending[i].model} ELSE ModelNames :
              NotBelow(record_usage(S(TRUE), pending[i].k, pending[i].o,
                                    m, tp[1], tp[2]).s.store)
    /\ \A c \in 1..(nextCred - 1) :
          LET a == authenticate_user_via_bearer(S(TRUE), c, clock)
          IN  /\ NotBelow(a.s.store)
              /\ a.status = "ok" =>
                    /\ NotBelow(create_api_key(a.s, c, a.o, "k1", nextCred, clock).s.store)
                    /\ \A b \in BOOLEAN :
                          NotBelow(set_api_key_active(a.s, c, a.o, b).s.store)

\* ------------------------------------------------------------------ C37
RECURSIVE SumUsage(_, _, _)
\* The sum of the integer field f over the entries ms of the per-model dict mu.
SumUsage(mu, ms, f) ==
    IF ms = {} THEN 0
    ELSE LET m == CHOOSE x \in ms : TRUE
         IN  mu[m][f] + SumUsage(mu, ms \ {m}, f)

\* C37: in every reachable state, every account record held in the cache or the
\* store has request_count, total_input_tokens and total_output_tokens equal to
\* the sums of request_count, input_tokens and output_tokens over its
\* model_usage entries.
CexC37_TotalsAreModelSums ==
    \A v \in AllVals :
        /\ v.request_count = SumUsage(v.model_usage, DOMAIN v.model_usage, "request_count")
        /\ v.total_input_tokens = SumUsage(v.model_usage, DOMAIN v.model_usage, "input_tokens")
        /\ v.total_output_tokens = SumUsage(v.model_usage, DOMAIN v.model_usage, "output_tokens")

\* ------------------------------------------------------------------ C38
\* C38: in every reachable state, a login with the right password that
\* succeeds, the store answering or not, returns as bearer credential the
\* access_token of the account logged in, and never its API key.
CexC38_LoginReturnsAccessToken ==
    \A u \in Users, up \in BOOLEAN :
        LET r == login_user(S(up), u, TRUE, clock)
        IN  r.status = "ok" =>
               \A i \in 1..Len(r.s.cache) :
                   r.s.cache[i].k = r.key =>
                       LET v == Deref(r.s, r.s.cache[i].o)
                       IN  /\ v.username = u
                           /\ r.key = v.access_token
                           /\ v.api_key # None => r.key # v.api_key[1].key

\* ------------------------------------------------------------------ C39
\* The cases of the round trip in the current state: credential c is the
\* access_token of an account whose API key is active, and authenticating with
\* that API key succeeds, the store answering (up) or not.
RoundTripCase(c, up) ==
    LET a == authenticate_user_via_bearer(S(up), c, clock)
    IN  /\ a.status = "ok"
        /\ LET v == Deref(a.s, a.o)
           IN  /\ v.access_token = c
               /\ v.api_key # None
               /\ v.api_key[1].active
               /\ Status(v.api_key[1].key, up) = "ok"

\* C39: in every reachable state, for every account with an active API key that
\* authenticates, deactivating and then activating the key with the access
\* token succeeds, leaves api_key with active = TRUE and the same key, name and
\* created_at, and authenticating with the API key succeeds afterwards; the
\* store answers or not at each of the three requests (up1, up2, up3).
CexC39_DeactivateActivateRoundTrip ==
    \A c \in 1..(nextCred - 1), up1 \in BOOLEAN, up2 \in BOOLEAN, up3 \in BOOLEAN :
        RoundTripCase(c, up1) =>
            LET a  == authenticate_user_via_bearer(S(up1), c, clock)
                k0 == Deref(a.s, a.o).api_key[1]
                d  == deactivate_api_key(S(up1), c, clock)
                e  == activate_api_key([d.s EXCEPT !.up = up2], c, clock)
            IN  /\ d.status = "ok"
                /\ e.status = "ok"
                /\ LET k1 == Deref(e.s, e.o).api_key
                   IN  /\ k1 # None
                       /\ k1[1].active
                       /\ k1[1].key = k0.key
                       /\ k1[1].name = k0.name
                       /\ k1[1].created_at = k0.created_at
                /\ authenticate_user_via_bearer([e.s EXCEPT !.up = up3],
                                                k0.key, clock).status = "ok"

====
